---- MODULE Spec2Model ----
(***************************************************************************)
(* Model of bevy_sprite's 2D material pipeline (mesh2d/material.rs):       *)
(* extraction of the material instance map, preparation of materials,      *)
(* view key construction, pipeline specialization and render phase         *)
(* queuing.                                                                *)
(***************************************************************************)
EXTENDS Integers, Sequences, FiniteSets, TLC

(***************************************************************************)
(* Bounds of the model.                                                    *)
(***************************************************************************)
NumEntities == 2
NumMaterials == 2

Entities == 1..NumEntities
Materials == 1..NumMaterials

\* An entity without a Handle<M> component (never spawned with one, component
\* removed, or despawned) does not match the extraction query.
NoHandle == 0

VARIABLES
    pc,                 \* position in the frame schedule
    handle,             \* main world: entity -> Handle<M> id, or NoHandle
    view_visibility,    \* main world: entity -> ViewVisibility::get()
    material_instances, \* render world: RenderMaterial2dInstances<M>
    prev_instances,     \* history: the instance map before this frame's extraction
    assets,             \* main world: Assets<M>, material id -> source material
    asset_changed,      \* main world: ids with a pending Added/Modified event
    asset_removed,      \* main world: ids with a pending removal event
    images,             \* render world: RenderAssets<GpuImage>, the images on the GPU
    extracted_assets,   \* render world: assets extracted this frame, id -> source
    extracted_removed,  \* render world: ids removed this frame
    prepare_next_frame, \* render world: the (id, source) pairs to prepare again
    render_materials,   \* render world: RenderAssets<PreparedMaterial2d<M>>
    prev_next_frame,    \* history: prepare_next_frame before this frame's prepare_assets
    views,              \* render world: view entity -> its ExtractedView, Msaa,
                        \*   Tonemapping and DebandDither components
    visible_entities,   \* render world: view entity -> VisibleEntities (WithMesh2d)
    render_mesh_instances, \* render world: RenderMesh2dInstances
    render_meshes,      \* render world: RenderAssets<RenderMesh>, the ready mesh ids
    material2d_pipeline, \* render world: the Material2dPipeline<M> resource
    pipelines,          \* render world: SpecializedMeshPipelines<Material2dPipeline<M>>
    pipeline_cache,     \* render world: PipelineCache, pipeline id -> queued descriptor
    opaque_phases,      \* render world: ViewBinnedRenderPhases<Opaque2d>
    transparent_phases, \* render world: ViewSortedRenderPhases<Transparent2d>
    errors,             \* the errors logged by queue_material2d_meshes this frame
    hook_calls,         \* the calls of M::specialize this frame: key and descriptor given
    drawn,              \* render passes: view -> for the items drawn this frame, the
                        \*   results of the draw function's commands and the bind
                        \*   groups of the pass after the item
    in_flight           \* views processed in parallel: view -> the request of its
                        \*   loop body that is under way

worldVars == <<handle, view_visibility>>
extractVars == <<material_instances, prev_instances>>
assetVars == <<assets, asset_changed, asset_removed, images>>
viewVars == <<views, visible_entities, material2d_pipeline>>
meshVars == <<render_mesh_instances, render_meshes>>
queueVars ==
    <<pipelines, pipeline_cache, opaque_phases, transparent_phases, errors, hook_calls,
      drawn, in_flight>>
prepareVars ==
    <<extracted_assets, extracted_removed, prepare_next_frame, render_materials,
      prev_next_frame>>

(***************************************************************************)
(* RenderMaterial2dInstances<M>: an EntityHashMap<AssetId<M>>, modelled as *)
(* a function whose domain is the set of entities present in the map.      *)
(***************************************************************************)
EmptyMap == [e \in {} |-> 0]

RenderMaterial2dInstances_default == EmptyMap

\* EntityHashMap::clear
MapClear(map) == EmptyMap

\* EntityHashMap::insert (overwrites an existing entry)
MapInsert(map, k, v) == [x \in (DOMAIN map) \cup {k} |-> IF x = k THEN v ELSE map[x]]

\* The rows of Query<(Entity, &ViewVisibility, &Handle<M>)>: the entities that
\* carry both components.
QueryRows(h) == {e \in Entities : h[e] # NoHandle}

\* The loop of extract_material_meshes_2d over the query rows `rows`, starting
\* from the map `map`.
RECURSIVE ExtractLoop(_, _, _, _)
ExtractLoop(map, rows, h, vv) ==
    IF rows = {} THEN map
    ELSE LET e == CHOOSE x \in rows : \A y \in rows : x <= y
             next == IF vv[e] THEN MapInsert(map, e, h[e]) ELSE map
         IN ExtractLoop(next, rows \ {e}, h, vv)

\* Mutation: the map is not cleared before it is repopulated.
ExtractNoClear(map, h, vv) == ExtractLoop(map, QueryRows(h), h, vv)

\* Mutation: the visibility test is dropped.
ExtractIgnoreVisibility(map, h, vv) ==
    ExtractLoop(MapClear(map), QueryRows(h), h, [e \in Entities |-> TRUE])

\* extract_material_meshes_2d: the new value of the instance map.
ExtractedInstances(map, h, vv) == ExtractLoop(MapClear(map), QueryRows(h), h, vv)

\* The system extract_material_meshes_2d, run once per frame in ExtractSchedule.
extract_material_meshes_2d ==
    /\ material_instances' = ExtractedInstances(material_instances, handle, view_visibility)
    /\ prev_instances' = material_instances

(***************************************************************************)
(* Main world: the app changes visibility flags and material assignments.  *)
(***************************************************************************)
SetViewVisibility(e, b) ==
    /\ view_visibility[e] # b
    /\ view_visibility' = [view_visibility EXCEPT ![e] = b]
    /\ UNCHANGED handle

\* Assign, re-assign or remove (NoHandle) the entity's material handle.
SetHandle(e, m) ==
    /\ handle[e] # m
    /\ handle' = [handle EXCEPT ![e] = m]
    /\ UNCHANGED view_visibility

(***************************************************************************)
(* Mesh2dPipelineKey: a bit set. A bit is named by the field it belongs to *)
(* and its index in the field, so that or-ing keys is set union and the    *)
(* multi-bit fields (MSAA, primitive topology, tonemapping method) keep    *)
(* their encoding: the value 0 of a field sets no bit.                     *)
(***************************************************************************)
RECURSIVE BitsOf(_, _)
BitsOf(value, index) ==
    IF value = 0 THEN {}
    ELSE (IF value % 2 = 1 THEN {index} ELSE {}) \cup BitsOf(value \div 2, index + 1)

KeyField(field, value) == {<<field, i>> : i \in BitsOf(value, 0)}

Mesh2dPipelineKey_NONE == {}
Mesh2dPipelineKey_empty == {}
HDR == {<<"HDR", 0>>}
TONEMAP_IN_SHADER == {<<"TONEMAP_IN_SHADER", 0>>}
DEBAND_DITHER == {<<"DEBAND_DITHER", 0>>}
BLEND_ALPHA == {<<"BLEND_ALPHA", 0>>}

TonemapMethodWidth == 3
TONEMAP_METHOD_RESERVED_BITS == {<<"TONEMAP_METHOD", i>> : i \in 0..(TonemapMethodWidth - 1)}

\* The variants of Tonemapping in declaration order; the key's method field
\* holds the variant's index.
TonemappingVariants ==
    <<"None", "Reinhard", "ReinhardLuminance", "AcesFitted", "AgX",
      "SomewhatBoringDisplayTransform", "TonyMcMapface", "BlenderFilmic">>

Tonemappings == {TonemappingVariants[i] : i \in DOMAIN TonemappingVariants}

VariantIndex(t) == (CHOOSE i \in DOMAIN TonemappingVariants : TonemappingVariants[i] = t) - 1

\* Mutation: the blend flag is set whatever the alpha mode.
AlphaKeyAlwaysBlend(alpha_mode) == BLEND_ALPHA

alpha_mode_pipeline_key(alpha_mode) ==
    IF alpha_mode = "Blend" THEN BLEND_ALPHA ELSE Mesh2dPipelineKey_NONE

tonemapping_pipeline_key(tonemapping) == KeyField("TONEMAP_METHOD", VariantIndex(tonemapping))

(***************************************************************************)
(* f32. A value of type f32 is the record [m, e] that stands for m * 2^e:  *)
(* at most 24 significant binary digits, the exponent as small as the      *)
(* digits allow and never below -149 (the subnormal values have fewer      *)
(* digits at e = -149). Zero is [m |-> 0, e |-> -149] (its sign is not     *)
(* kept), the infinities are [m |-> 2^23 or -2^23, e |-> 105] and NaN is   *)
(* [m |-> 0, e |-> 105].                                                   *)
(***************************************************************************)
\* The f32 nearest to M * 2^E, ties to the even significand; M is below 2^31
\* in magnitude.
f32_round(M, E) ==
    LET abs == IF M < 0 THEN -M ELSE M
        sign == IF M < 0 THEN -1 ELSE 1
        n == IF abs = 0 THEN 0 ELSE CHOOSE k \in 1..31 : abs \div 2^(k - 1) = 1
        \* The number of low digits that do not fit.
        r == IF n - 24 > -149 - E THEN n - 24 ELSE -149 - E
        s == IF 24 - n < E + 149 THEN 24 - n ELSE E + 149
        q == IF r > 30 THEN 0 ELSE abs \div 2^r
        rest == IF r > 30 THEN abs ELSE abs % 2^r
        up == IF r > 31 THEN FALSE
              ELSE IF r = 31 THEN abs > 2^30
              ELSE rest > 2^(r - 1) \/ (rest = 2^(r - 1) /\ q % 2 = 1)
        rounded == IF up THEN q + 1 ELSE q
        finite == IF abs = 0 THEN [m |-> 0, e |-> -149]
                  ELSE IF r <= 0 THEN [m |-> M * 2^s, e |-> E - s]
                  ELSE IF rounded = 0 THEN [m |-> 0, e |-> -149]
                  ELSE IF rounded = 16777216 THEN [m |-> sign * 8388608, e |-> E + r + 1]
                  ELSE [m |-> sign * rounded, e |-> E + r]
    IN IF finite.e > 104 THEN [m |-> sign * 8388608, e |-> 105] ELSE finite

\* a + b of two f32: the exact sum, rounded once. The operand with the smaller
\* exponent is aligned to the other one; what it loses below the digits kept
\* stays as one odd digit, which decides a rounding the way the lost digits
\* would.
f32_add(a, b) ==
    LET IsNaN(x) == x.e = 105 /\ x.m = 0
        IsInf(x) == x.e = 105 /\ x.m # 0
        hi == IF a.e >= b.e THEN a ELSE b
        lo == IF a.e >= b.e THEN b ELSE a
        d == hi.e - lo.e
        abs == IF lo.m < 0 THEN -lo.m ELSE lo.m
        sign == IF lo.m < 0 THEN -1 ELSE 1
        kept == IF d - 5 > 24 THEN 0 ELSE abs \div 2^(d - 5)
        lost == IF abs = 0 THEN 0
                ELSE IF d - 5 > 24 THEN 1
                ELSE IF abs % 2^(d - 5) # 0 THEN 1 ELSE 0
    IN IF IsNaN(a) \/ IsNaN(b) THEN [m |-> 0, e |-> 105]
       ELSE IF IsInf(a) THEN IF IsInf(b) /\ b.m # a.m THEN [m |-> 0, e |-> 105] ELSE a
       ELSE IF IsInf(b) THEN b
       ELSE IF d <= 5 THEN f32_round(hi.m * 2^d + lo.m, lo.e)
       ELSE f32_round(2 * (hi.m * 32 + sign * kept) + sign * lost, hi.e - 6)

\* FloatOrd(a) < FloatOrd(b): the order of the numbers, NaN below all of them.
FloatOrd_lt(a, b) ==
    LET IsNaN(x) == x.e = 105 /\ x.m = 0 IN
    IF IsNaN(a) THEN ~IsNaN(b)
    ELSE IF IsNaN(b) THEN FALSE
    ELSE IF (a.m < 0) # (b.m < 0) THEN a.m < 0
    ELSE IF a.m >= 0 THEN a.e < b.e \/ (a.e = b.e /\ a.m < b.m)
    ELSE a.e > b.e \/ (a.e = b.e /\ a.m < b.m)

(***************************************************************************)
(* Source materials. A value of the material type M is known to the        *)
(* pipeline through alpha_mode(), depth_bias(), the AsBindGroup data key   *)
(* and the image its texture binding refers to (NoImage: the slot is       *)
(* unset and the fallback image is bound).                                 *)
(***************************************************************************)
NoImage == 0
FallbackImage == -1
Images == {1}

Material(alpha, bias, data, texture) ==
    [alpha_mode |-> alpha, depth_bias |-> bias, data |-> data, texture |-> texture]

SourceMaterials ==
    { Material("Opaque", f32_round(0, 0), 10, NoImage),
      Material("Blend", f32_round(1, 0), 11, 1) }

NoAsset == [none |-> TRUE]

\* Bind group ids are opaque and only compared. The id of a bind group is
\* named by the material id it is created for and a generation that
\* alternates, so that a new bind group differs from every live one: from the
\* one it replaces and from those of the other materials.
\* RenderDevice::create_bind_group: the id of the bind group created for the
\* material id m.
NewBindGroup(cache, m) ==
    [owner |-> m,
     generation |-> IF cache[m] = NoAsset THEN 0 ELSE 1 - cache[m].bind_group.generation]

\* AsBindGroup::as_bind_group: fails with RetryNextUpdate while the image of
\* a texture binding is not on the GPU.
as_bind_group(material, imgs, bind_group) ==
    IF material.texture # NoImage /\ material.texture \notin imgs
    THEN [ok |-> FALSE]
    ELSE [ok |-> TRUE,
          bindings |-> <<<<1, IF material.texture = NoImage
                              THEN FallbackImage ELSE material.texture>>>>,
          bind_group |-> bind_group,
          data |-> material.data]

\* Mutation: a failed attempt hands back a material with its depth bias reset.
PrepareAssetRetryLosesBias(material, imgs, bind_group) ==
    LET prepared == as_bind_group(material, imgs, bind_group) IN
    IF prepared.ok
    THEN [ok |-> TRUE,
          asset |-> [bindings |-> prepared.bindings,
                     bind_group |-> prepared.bind_group,
                     key |-> prepared.data,
                     properties |-> [depth_bias |-> material.depth_bias,
                                     alpha_mode |-> material.alpha_mode,
                                     mesh_pipeline_key_bits |->
                                         alpha_mode_pipeline_key(material.alpha_mode)]]]
    ELSE [ok |-> FALSE, retry |-> [material EXCEPT !.depth_bias = f32_round(0, 0)]]

\* PreparedMaterial2d::prepare_asset: Ok(PreparedMaterial2d) or
\* Err(RetryNextUpdate(material)).
prepare_asset(material, imgs, bind_group) ==
    LET prepared == as_bind_group(material, imgs, bind_group) IN
    IF prepared.ok
    THEN LET mesh_pipeline_key_bits ==
                 Mesh2dPipelineKey_empty \cup alpha_mode_pipeline_key(material.alpha_mode)
         IN [ok |-> TRUE,
             asset |-> [bindings |-> prepared.bindings,
                        bind_group |-> prepared.bind_group,
                        key |-> prepared.data,
                        properties |-> [depth_bias |-> material.depth_bias,
                                        alpha_mode |-> material.alpha_mode,
                                        mesh_pipeline_key_bits |-> mesh_pipeline_key_bits]]]
    ELSE [ok |-> FALSE, retry |-> material]

\* PreparedMaterial2d::get_bind_group_id
get_bind_group_id(material_2d) == material_2d.bind_group

(***************************************************************************)
(* Views, meshes and the Material2dPipeline resource.                      *)
(***************************************************************************)
NumViews == 3
Views == 1..NumViews

\* An absent optional component (Option<&Tonemapping>, Option<&DebandDither>).
NoComponent == "NoComponent"

DebandDithers == {"Disabled", "Enabled"}

MsaaSamples == {1, 2, 4, 8}

\* u32::trailing_zeros of a sample count (a power of two).
RECURSIVE TrailingZeros(_)
TrailingZeros(n) == IF n % 2 = 1 THEN 0 ELSE 1 + TrailingZeros(n \div 2)

from_msaa_samples(samples) == KeyField("MSAA", TrailingZeros(samples))

from_hdr(hdr) == IF hdr THEN HDR ELSE Mesh2dPipelineKey_NONE

\* PrimitiveTopology in declaration order; the key's field holds the index.
TopologyVariants == <<"PointList", "LineList", "LineStrip", "TriangleList", "TriangleStrip">>

from_primitive_topology(t) ==
    KeyField("PRIMITIVE_TOPOLOGY",
             (CHOOSE i \in DOMAIN TopologyVariants : TopologyVariants[i] = t) - 1)

\* Mutation: the HDR test is dropped, tonemapping and dither flags are always added.
ViewKeyIgnoresHdr(samples, hdr, tonemapping, dither) ==
    from_msaa_samples(samples) \cup from_hdr(hdr)
        \cup (IF tonemapping # NoComponent
              THEN TONEMAP_IN_SHADER \cup tonemapping_pipeline_key(tonemapping) ELSE {})
        \cup (IF dither = "Enabled" THEN DEBAND_DITHER ELSE {})

\* The view key of queue_material2d_meshes.
ViewKey(samples, hdr, tonemapping, dither) ==
    LET base == from_msaa_samples(samples) \cup from_hdr(hdr) IN
    IF ~hdr
    THEN base
           \cup (IF tonemapping # NoComponent
                 THEN TONEMAP_IN_SHADER \cup tonemapping_pipeline_key(tonemapping) ELSE {})
           \cup (IF dither = "Enabled" THEN DEBAND_DITHER ELSE {})
    ELSE base

\* The render meshes: RenderMesh of a mesh asset id once it is on the GPU.
\* Mesh 1 is a triangle list with uvs, mesh 2 a line list without; mesh 3 has
\* no position attribute, which the base mesh pipeline cannot specialize.
MeshIds == {1, 2, 3}

RenderMeshOf(id) ==
    IF id = 1 THEN [primitive_topology |-> "TriangleList", layout |-> {"POSITION", "UV"}]
    ELSE IF id = 2 THEN [primitive_topology |-> "LineList", layout |-> {"POSITION"}]
    ELSE [primitive_topology |-> "PointList", layout |-> {"COLOR"}]

\* The mesh instance that mesh extraction builds for a visible entity.
NoBindGroup == [owner |-> NoHandle, generation |-> 0]

ExtractedMeshInstance(e) ==
    [mesh_asset_id |-> ((e - 1) % Cardinality(MeshIds)) + 1,
     mesh_z |-> f32_round(2 * (e % 2) - 2, 0),
     automatic_batching |-> (e % 2 = 0),
     material_bind_group_id |-> NoBindGroup]

\* The material type M: its shader references and its specialize hook.
ShaderDefault == [ref |-> "Default"]

MaterialTypes ==
    { [vertex_shader |-> ShaderDefault, fragment_shader |-> ShaderDefault,
       specialize |-> "Default"],
      [vertex_shader |-> [ref |-> "Handle", handle |-> "custom_vertex"],
       fragment_shader |-> [ref |-> "Path", path |-> "custom.wgsl"],
       specialize |-> "RejectsHdrBlend"],
      [vertex_shader |-> ShaderDefault,
       fragment_shader |-> [ref |-> "Path", path |-> "uv.wgsl"],
       specialize |-> "RequiresUv"] }

NoShader == [none |-> TRUE]

\* AssetServer::load
AssetServerLoad(path) == [handle |-> path]

ShaderOf(shader_ref) ==
    IF shader_ref.ref = "Default" THEN NoShader
    ELSE IF shader_ref.ref = "Handle" THEN [handle |-> shader_ref.handle]
    ELSE AssetServerLoad(shader_ref.path)

\* Material2dPipeline::from_world
from_world(M) ==
    [mesh2d_pipeline |-> [view_layout |-> "view_layout", mesh_layout |-> "mesh_layout"],
     material2d_layout |-> "material2d_layout",
     vertex_shader |-> ShaderOf(M.vertex_shader),
     fragment_shader |-> ShaderOf(M.fragment_shader),
     marker |-> M]

MESH2D_SHADER_HANDLE == [handle |-> "mesh2d.wgsl"]

\* Mesh2dPipeline::specialize: the base descriptor for a mesh key and layout.
Mesh2dPipeline_specialize(mesh2d_pipeline, mesh_key, layout) ==
    IF "POSITION" \notin layout
    THEN [ok |-> FALSE, err |-> "MissingVertexAttribute"]
    ELSE [ok |-> TRUE,
          descriptor |-> [vertex |-> [shader |-> MESH2D_SHADER_HANDLE, buffers |-> layout],
                          fragment |-> [shader |-> MESH2D_SHADER_HANDLE],
                          layout |-> <<mesh2d_pipeline.view_layout,
                                       mesh2d_pipeline.mesh_layout>>,
                          mesh_key |-> mesh_key]]

\* Material2d::specialize of the material type M, the hook.
M_specialize(M, descriptor, layout, key) ==
    IF M.specialize = "RejectsHdrBlend" /\ (HDR \cup BLEND_ALPHA) \subseteq key.mesh_key
    THEN [ok |-> FALSE, err |-> "MaterialSpecializeError"]
    ELSE IF M.specialize = "RequiresUv"
    THEN IF "UV" \notin layout
         THEN [ok |-> FALSE, err |-> "MissingVertexAttribute"]
         ELSE [ok |-> TRUE,
               descriptor |-> [descriptor EXCEPT !.vertex.buffers = {"POSITION", "UV"}]]
    ELSE [ok |-> TRUE, descriptor |-> descriptor]

\* No descriptor: the hook was not invoked.
NoDescriptor == [none |-> TRUE]

\* Mutation: the result of the material's hook is dropped.
Material2dPipelineSpecializeIgnoresHook(self, key, layout) ==
    LET base == Mesh2dPipeline_specialize(self.mesh2d_pipeline, key.mesh_key, layout) IN
    IF ~base.ok
    THEN [ok |-> FALSE, err |-> base.err, hook_invoked |-> FALSE, hook_input |-> NoDescriptor]
    ELSE LET d1 == IF self.vertex_shader # NoShader
                   THEN [base.descriptor EXCEPT !.vertex.shader = self.vertex_shader]
                   ELSE base.descriptor
             d2 == IF self.fragment_shader # NoShader
                   THEN [d1 EXCEPT !.fragment.shader = self.fragment_shader]
                   ELSE d1
             d3 == [d2 EXCEPT !.layout = <<self.mesh2d_pipeline.view_layout,
                                           self.mesh2d_pipeline.mesh_layout,
                                           self.material2d_layout>>]
         IN [ok |-> TRUE, descriptor |-> d3, hook_invoked |-> TRUE, hook_input |-> d3]

\* Mutation: the bind group layouts of the base descriptor are kept.
Material2dPipelineSpecializeKeepsLayout(self, key, layout) ==
    LET base == Mesh2dPipeline_specialize(self.mesh2d_pipeline, key.mesh_key, layout) IN
    IF ~base.ok
    THEN [ok |-> FALSE, err |-> base.err, hook_invoked |-> FALSE, hook_input |-> NoDescriptor]
    ELSE LET d1 == IF self.vertex_shader # NoShader
                   THEN [base.descriptor EXCEPT !.vertex.shader = self.vertex_shader]
                   ELSE base.descriptor
             d2 == IF self.fragment_shader # NoShader
                   THEN [d1 EXCEPT !.fragment.shader = self.fragment_shader]
                   ELSE d1
             hooked == M_specialize(self.marker, d2, layout, key)
         IN IF hooked.ok
            THEN [ok |-> TRUE, descriptor |-> hooked.descriptor, hook_invoked |-> TRUE,
                  hook_input |-> d2]
            ELSE [ok |-> FALSE, err |-> hooked.err, hook_invoked |-> TRUE, hook_input |-> d2]

\* Material2dPipeline::specialize. The result also tells whether M::specialize
\* was invoked and with which descriptor.
Material2dPipeline_specialize(self, key, layout) ==
    LET base == Mesh2dPipeline_specialize(self.mesh2d_pipeline, key.mesh_key, layout) IN
    IF ~base.ok
    THEN [ok |-> FALSE, err |-> base.err, hook_invoked |-> FALSE, hook_input |-> NoDescriptor]
    ELSE LET d1 == IF self.vertex_shader # NoShader
                   THEN [base.descriptor EXCEPT !.vertex.shader = self.vertex_shader]
                   ELSE base.descriptor
             d2 == IF self.fragment_shader # NoShader
                   THEN [d1 EXCEPT !.fragment.shader = self.fragment_shader]
                   ELSE d1
             d3 == [d2 EXCEPT !.layout = <<self.mesh2d_pipeline.view_layout,
                                           self.mesh2d_pipeline.mesh_layout,
                                           self.material2d_layout>>]
             hooked == M_specialize(self.marker, d3, layout, key)
         IN IF hooked.ok
            THEN [ok |-> TRUE, descriptor |-> hooked.descriptor, hook_invoked |-> TRUE,
                  hook_input |-> d3]
            ELSE [ok |-> FALSE, err |-> hooked.err, hook_invoked |-> TRUE, hook_input |-> d3]

(***************************************************************************)
(* SpecializedMeshPipelines<Material2dPipeline<M>>: the memo table from    *)
(* (key, mesh layout) to the id of the pipeline queued in the              *)
(* PipelineCache. Ids are opaque and only compared; the id of a pipeline   *)
(* is named by the key it was created for and its serial number among the  *)
(* pipelines created for that key, so that every queue_render_pipeline     *)
(* call returns an id distinct from all earlier ones.                      *)
(***************************************************************************)
CacheKey(key, layout) == [key |-> key, layout |-> layout]

\* PipelineCache::queue_render_pipeline: the id of the new pipeline.
queue_render_pipeline(created, k) ==
    [created_for |-> k,
     serial |-> Cardinality({id \in DOMAIN created : id.created_for = k}) + 1]

SpecializedMeshPipelines_specialize(cache, created, specialize_pipeline, key, layout) ==
    LET k == CacheKey(key, layout) IN
    IF k \in DOMAIN cache
    THEN [ok |-> TRUE, id |-> cache[k], cache |-> cache, created |-> created,
          hook_invoked |-> FALSE, hook_input |-> NoDescriptor]
    ELSE LET r == Material2dPipeline_specialize(specialize_pipeline, key, layout) IN
         IF r.ok
         THEN LET id == queue_render_pipeline(created, k) IN
              [ok |-> TRUE, id |-> id, cache |-> MapInsert(cache, k, id),
               created |-> MapInsert(created, id, r.descriptor),
               hook_invoked |-> r.hook_invoked, hook_input |-> r.hook_input]
         ELSE [ok |-> FALSE, err |-> r.err, cache |-> cache, created |-> created,
               hook_invoked |-> r.hook_invoked, hook_input |-> r.hook_input]

(***************************************************************************)
(* queue_material2d_meshes                                                 *)
(***************************************************************************)
DrawOpaque2d == "DrawMaterial2d in DrawFunctions<Opaque2d>"
DrawTransparent2d == "DrawMaterial2d in DrawFunctions<Transparent2d>"

PhaseItemExtraIndex_NONE == "NONE"

\* BinnedRenderPhaseType::mesh
BinnedRenderPhaseType_mesh(batchable) ==
    IF batchable THEN "BatchableMesh" ELSE "UnbatchableMesh"

\* The state the loops of queue_material2d_meshes work on.
QueueState(cache, created, instances, opaque, transparent, log, calls) ==
    [pipelines |-> cache, pipeline_cache |-> created, mesh_instances |-> instances,
     opaque |-> opaque, transparent |-> transparent, errors |-> log, hook_calls |-> calls]

\* Mutation: the render mesh lookup is dropped.
SkipsEntityLenient(instances, e, mat_instances, materials, meshes) ==
    \/ e \notin DOMAIN mat_instances
    \/ e \notin DOMAIN instances
    \/ materials[mat_instances[e]] = NoAsset

\* The four lookups at the head of the inner loop: TRUE when one of them
\* fails and the entity is passed over.
SkipsEntity(instances, e, mat_instances, materials, meshes) ==
    \/ e \notin DOMAIN mat_instances
    \/ e \notin DOMAIN instances
    \/ materials[mat_instances[e]] = NoAsset
    \/ instances[e].mesh_asset_id \notin meshes

\* The mesh key of the entity: view key | topology | material key bits.
\* Mutation: the material's key bits are left out of the mesh key.
MeshKeyWithoutMaterialBits(view_key, mesh, material_2d) ==
    view_key \cup from_primitive_topology(mesh.primitive_topology)

MeshKey(view_key, mesh, material_2d) ==
    view_key
        \cup from_primitive_topology(mesh.primitive_topology)
        \cup material_2d.properties.mesh_pipeline_key_bits

Opaque2dItem(e, pipeline_id, material_2d, mesh_instance) ==
    [bin_key |-> [pipeline |-> pipeline_id,
                  draw_function |-> DrawOpaque2d,
                  asset_id |-> mesh_instance.mesh_asset_id,
                  material_bind_group_id |-> get_bind_group_id(material_2d)],
     entity |-> e,
     phase_type |-> BinnedRenderPhaseType_mesh(mesh_instance.automatic_batching)]

\* Mutation: the sort key is the mesh instance's z alone.
Transparent2dItemNoBias(e, pipeline_id, material_2d, mesh_instance) ==
    [entity |-> e,
     draw_function |-> DrawTransparent2d,
     pipeline |-> pipeline_id,
     sort_key |-> mesh_instance.mesh_z,
     batch_range |-> <<0, 1>>,
     extra_index |-> PhaseItemExtraIndex_NONE]

Transparent2dItem(e, pipeline_id, material_2d, mesh_instance) ==
    [entity |-> e,
     draw_function |-> DrawTransparent2d,
     pipeline |-> pipeline_id,
     sort_key |-> f32_add(mesh_instance.mesh_z, material_2d.properties.depth_bias),
     batch_range |-> <<0, 1>>,
     extra_index |-> PhaseItemExtraIndex_NONE]

\* Mutation: a Blend material is also binned into the opaque phase.
AddToPhaseBoth(acc, v, e, pipeline_id, material_2d, mesh_instance) ==
    LET binned == [acc EXCEPT !.opaque[v] =
                       Append(@, Opaque2dItem(e, pipeline_id, material_2d, mesh_instance))]
    IN IF material_2d.properties.alpha_mode = "Opaque" THEN binned
       ELSE [binned EXCEPT !.transparent[v] =
                 Append(@, Transparent2dItem(e, pipeline_id, material_2d, mesh_instance))]

\* Mutation: the phase is chosen from the batching flag, not the alpha mode.
AddToPhaseByBatching(acc, v, e, pipeline_id, material_2d, mesh_instance) ==
    IF mesh_instance.automatic_batching
    THEN [acc EXCEPT !.opaque[v] =
              Append(@, Opaque2dItem(e, pipeline_id, material_2d, mesh_instance))]
    ELSE [acc EXCEPT !.transparent[v] =
              Append(@, Transparent2dItem(e, pipeline_id, material_2d, mesh_instance))]

\* The match on the alpha mode: the item is added to one phase of view v.
AddToPhase(acc, v, e, pipeline_id, material_2d, mesh_instance) ==
    IF material_2d.properties.alpha_mode = "Opaque"
    THEN [acc EXCEPT !.opaque[v] =
              Append(@, Opaque2dItem(e, pipeline_id, material_2d, mesh_instance))]
    ELSE [acc EXCEPT !.transparent[v] =
              Append(@, Transparent2dItem(e, pipeline_id, material_2d, mesh_instance))]

NullPipeline == [created_for |-> "none", serial |-> 0]

\* Mutation: after logging the error the entity is drawn with a null pipeline.
SpecializeErrorStillDraws(acc, v, e, err, material_2d, mesh_instance) ==
    AddToPhase([acc EXCEPT !.errors = Append(@, [view |-> v, entity |-> e, err |-> err])],
               v, e, NullPipeline, material_2d, mesh_instance)

\* Mutation: the cached bind group id is written before the match on the
\* specialization result.
SpecializeErrorWritesBindGroupId(acc, v, e, err, material_2d, mesh_instance) ==
    [acc EXCEPT !.errors = Append(@, [view |-> v, entity |-> e, err |-> err]),
                !.mesh_instances[e].material_bind_group_id = material_2d.bind_group]

\* Mutation: a failed specialization also empties the memo table.
SpecializeErrorDropsPipelines(acc, v, e, err, material_2d, mesh_instance) ==
    [acc EXCEPT !.errors = Append(@, [view |-> v, entity |-> e, err |-> err]),
                !.pipelines = EmptyMap]

\* The Err arm of the match on the specialization result: error!, continue.
SpecializeError(acc, v, e, err, material_2d, mesh_instance) ==
    [acc EXCEPT !.errors = Append(@, [view |-> v, entity |-> e, err |-> err])]

\* Mutation: the request goes to a memo table that starts empty at every call.
SpecializeRequestUncached(acc, self, key, layout) ==
    SpecializedMeshPipelines_specialize(EmptyMap, acc.pipeline_cache, self, key, layout)

\* pipelines.specialize(&pipeline_cache, &material2d_pipeline, key, &mesh.layout)
SpecializeRequest(acc, self, key, layout) ==
    SpecializedMeshPipelines_specialize(acc.pipelines, acc.pipeline_cache, self, key, layout)

\* The body of the inner loop for the visible entity e of view v.
QueueEntity(acc, v, view_key, e, self, mat_instances, materials, meshes) ==
    IF SkipsEntity(acc.mesh_instances, e, mat_instances, materials, meshes) THEN acc
    ELSE
    LET material_2d == materials[mat_instances[e]]
        mesh_instance == acc.mesh_instances[e]
        mesh == RenderMeshOf(mesh_instance.mesh_asset_id)
        mesh_key == MeshKey(view_key, mesh, material_2d)
        key == [mesh_key |-> mesh_key, bind_group_data |-> material_2d.key]
        r == SpecializeRequest(acc, self, key, mesh.layout)
        called == IF r.hook_invoked
                  THEN [acc EXCEPT !.hook_calls =
                            Append(@, [key |-> CacheKey(key, mesh.layout),
                                       descriptor |-> r.hook_input])]
                  ELSE acc
    IN
    IF ~r.ok
    THEN SpecializeError(called, v, e, r.err, material_2d, mesh_instance)
    ELSE AddToPhase([called EXCEPT
                       !.pipelines = r.cache,
                       !.pipeline_cache = r.created,
                       !.mesh_instances[e].material_bind_group_id =
                           get_bind_group_id(material_2d)],
                    v, e, r.id, material_2d, mesh_instance)

RECURSIVE QueueEntities(_, _, _, _, _, _, _, _)
QueueEntities(acc, v, view_key, visible, self, mat_instances, materials, meshes) ==
    IF visible = <<>> THEN acc
    ELSE QueueEntities(
             QueueEntity(acc, v, view_key, Head(visible), self, mat_instances, materials, meshes),
             v, view_key, Tail(visible), self, mat_instances, materials, meshes)

\* The body of the outer loop for the view v.
QueueView(acc, v, view, visible, self, mat_instances, materials, meshes) ==
    IF v \notin DOMAIN acc.transparent THEN acc
    ELSE IF v \notin DOMAIN acc.opaque THEN acc
    ELSE QueueEntities(acc, v,
                       ViewKey(view.msaa, view.hdr, view.tonemapping, view.dither),
                       visible, self, mat_instances, materials, meshes)

\* Mutation: the view key is computed once, from the first view, and used for
\* every view of the frame.
RECURSIVE QueueViewsOneKey(_, _, _, _, _, _, _, _)
QueueViewsOneKey(acc, todo, view_of, visible_of, self, mat_instances, materials, meshes) ==
    IF todo = {} THEN acc
    ELSE LET v == CHOOSE x \in todo : \A y \in todo : x <= y
             first == CHOOSE x \in DOMAIN view_of : \A y \in DOMAIN view_of : x <= y
         IN
         QueueViewsOneKey(
             QueueView(acc, v, view_of[first], visible_of[v], self, mat_instances, materials,
                       meshes),
             todo \ {v}, view_of, visible_of, self, mat_instances, materials, meshes)

RECURSIVE QueueViews(_, _, _, _, _, _, _, _)
QueueViews(acc, todo, view_of, visible_of, self, mat_instances, materials, meshes) ==
    IF todo = {} THEN acc
    ELSE LET v == CHOOSE x \in todo : \A y \in todo : x <= y IN
         QueueViews(
             QueueView(acc, v, view_of[v], visible_of[v], self, mat_instances, materials, meshes),
             todo \ {v}, view_of, visible_of, self, mat_instances, materials, meshes)

\* queue_material2d_meshes: the state after the system has run on `acc`.
QueuedMeshes(acc, view_of, visible_of, self, mat_instances, materials, meshes) ==
    IF DOMAIN mat_instances = {} THEN acc
    ELSE QueueViews(acc, DOMAIN view_of, view_of, visible_of, self,
                    mat_instances, materials, meshes)

\* The system queue_material2d_meshes, run once per frame in RenderSet::QueueMeshes.
queue_material2d_meshes ==
    LET done == QueuedMeshes(
                    QueueState(pipelines, pipeline_cache, render_mesh_instances, opaque_phases,
                               transparent_phases, errors, hook_calls),
                    views, visible_entities, material2d_pipeline,
                    material_instances, render_materials, render_meshes)
    IN /\ pipelines' = done.pipelines
       /\ pipeline_cache' = done.pipeline_cache
       /\ render_mesh_instances' = done.mesh_instances
       /\ opaque_phases' = done.opaque
       /\ transparent_phases' = done.transparent
       /\ errors' = done.errors
       /\ hook_calls' = done.hook_calls
       /\ drawn' = drawn
       /\ in_flight' = in_flight
       /\ UNCHANGED <<render_meshes, viewVars>>

\* The views of the model: two 2D cameras, one of them HDR, and a view that
\* has no 2D phases; further views alternate.
ViewOf(v) ==
    IF v = 1 THEN [hdr |-> FALSE, msaa |-> 4, tonemapping |-> "Reinhard",
                   dither |-> "Enabled", phases |-> TRUE]
    ELSE IF v = 2 THEN [hdr |-> TRUE, msaa |-> 1, tonemapping |-> "AcesFitted",
                        dither |-> "Enabled", phases |-> TRUE]
    ELSE IF v = 3 THEN [hdr |-> FALSE, msaa |-> 1, tonemapping |-> NoComponent,
                        dither |-> NoComponent, phases |-> FALSE]
    ELSE [hdr |-> FALSE, msaa |-> 2, tonemapping |-> NoComponent,
          dither |-> "Disabled", phases |-> TRUE]

\* The entities of `set` in ascending order, and a sequence reversed.
RECURSIVE Ascending(_)
Ascending(set) ==
    IF set = {} THEN <<>>
    ELSE LET e == CHOOSE x \in set : \A y \in set : x <= y
         IN <<e>> \o Ascending(set \ {e})

Reverse(seq) == [i \in DOMAIN seq |-> seq[Len(seq) + 1 - i]]

\* The visible entities of view v among `set`, in the view's order.
VisibleOrder(v, set) == IF v % 2 = 1 THEN Ascending(set) ELSE Reverse(Ascending(set))

\* The phases of a frame before queuing: one empty phase per view that has
\* 2D phases.
ClearedPhases(view_of) == [v \in {x \in DOMAIN view_of : view_of[x].phases} |-> <<>>]

(***************************************************************************)
(* Asset extraction and prepare_assets::<PreparedMaterial2d<M>> (the       *)
(* RenderAssetPlugin that Material2dPlugin::build adds).                   *)
(***************************************************************************)
RenderAssets_default == [m \in Materials |-> NoAsset]

\* Assets<M>::insert / get_mut: the asset is added or modified.
SetAsset(m, s) ==
    /\ assets' = [assets EXCEPT ![m] = s]
    /\ asset_changed' = asset_changed \cup {m}
    /\ UNCHANGED <<asset_removed, images>>

\* Assets<M>::remove, or the last handle is dropped.
RemoveAsset(m) ==
    /\ assets[m] # NoAsset
    /\ assets' = [assets EXCEPT ![m] = NoAsset]
    /\ asset_changed' = asset_changed \ {m}
    /\ asset_removed' = asset_removed \cup {m}
    /\ UNCHANGED images

\* An image finishes uploading to the GPU, or is unloaded.
SetImage(i, ready) ==
    /\ (i \in images) # ready
    /\ images' = IF ready THEN images \cup {i} ELSE images \ {i}
    /\ UNCHANGED <<assets, asset_changed, asset_removed>>

\* extract_render_asset: the changed assets are cloned into the render world.
extract_render_asset ==
    /\ extracted_assets' =
           [m \in {x \in asset_changed : assets[x] # NoAsset} |-> assets[m]]
    /\ extracted_removed' = asset_removed
    /\ asset_changed' = {}
    /\ asset_removed' = {}
    /\ UNCHANGED <<assets, images, prepare_next_frame, render_materials, prev_next_frame>>

\* The (id, asset) entries of `f` in ascending id order.
RECURSIVE EntriesOf(_, _)
EntriesOf(f, ids) ==
    IF ids = {} THEN <<>>
    ELSE LET m == CHOOSE x \in ids : \A y \in ids : x <= y
         IN <<[id |-> m, asset |-> f[m]]>> \o EntriesOf(f, ids \ {m})

\* One iteration of prepare_assets' loops: the asset is prepared; on success it
\* is inserted under its id, on RetryNextUpdate the material handed back is
\* queued for the next frame and the cache is left as it is.
PrepareEntry(acc, entry, imgs) ==
    LET r == prepare_asset(entry.asset, imgs, NewBindGroup(acc.cache, entry.id)) IN
    IF r.ok
    THEN [cache |-> [acc.cache EXCEPT ![entry.id] = r.asset], next |-> acc.next]
    ELSE [cache |-> acc.cache,
          next |-> Append(acc.next, [id |-> entry.id, asset |-> r.retry])]

RECURSIVE PrepareLoop(_, _, _, _)
PrepareLoop(acc, entries, skip, imgs) ==
    IF entries = <<>> THEN acc
    ELSE LET entry == Head(entries)
             next == IF entry.id \in skip THEN acc ELSE PrepareEntry(acc, entry, imgs)
         IN PrepareLoop(next, Tail(entries), skip, imgs)

RemoveAll(cache, removed) == [m \in Materials |-> IF m \in removed THEN NoAsset ELSE cache[m]]

\* prepare_assets: the entries queued by the previous frame (unless removed or
\* extracted again), then the removals, then this frame's extracted assets.
PreparedAssets(queued, extracted, removed, cache, imgs) ==
    LET retried == PrepareLoop([cache |-> cache, next |-> <<>>], queued,
                               removed \cup DOMAIN extracted, imgs)
        dropped == [cache |-> RemoveAll(retried.cache, removed), next |-> retried.next]
    IN PrepareLoop(dropped, EntriesOf(extracted, DOMAIN extracted), {}, imgs)

prepare_assets ==
    LET done == PreparedAssets(prepare_next_frame, extracted_assets, extracted_removed,
                               render_materials, images)
    IN /\ render_materials' = done.cache
       /\ prepare_next_frame' = done.next
       /\ prev_next_frame' = prepare_next_frame
       /\ extracted_assets' = EmptyMap
       /\ extracted_removed' = {}
       /\ UNCHANGED assetVars

\* The ids queued in prepare_next_frame, and the material queued under an id.
QueuedIds(queue) == {queue[i].id : i \in DOMAIN queue}

QueuedAsset(queue, m) == queue[CHOOSE i \in DOMAIN queue : queue[i].id = m].asset

(***************************************************************************)
(* Initial state: the state after Material2dPlugin::build and finish.      *)
(***************************************************************************)
vars == <<pc, worldVars, extractVars, assetVars, prepareVars, viewVars, meshVars, queueVars>>

DefaultMaterialType == CHOOSE M \in MaterialTypes : M.specialize = "Default"

Init ==
    /\ pc = "update"
    /\ handle = [e \in Entities |-> NoHandle]
    /\ view_visibility = [e \in Entities |-> FALSE]
    /\ material_instances = RenderMaterial2dInstances_default
    /\ prev_instances = RenderMaterial2dInstances_default
    /\ assets = [m \in Materials |-> NoAsset]
    /\ asset_changed = {}
    /\ asset_removed = {}
    /\ images = {}
    /\ extracted_assets = EmptyMap
    /\ extracted_removed = {}
    /\ prepare_next_frame = <<>>
    /\ prev_next_frame = <<>>
    /\ render_materials = RenderAssets_default
    /\ views = [v \in Views |-> ViewOf(v)]
    /\ visible_entities = [v \in Views |-> VisibleOrder(v, Entities)]
    /\ material2d_pipeline = from_world(DefaultMaterialType)
    /\ render_mesh_instances = EmptyMap
    /\ render_meshes = {}
    /\ pipelines = EmptyMap
    /\ pipeline_cache = EmptyMap
    /\ opaque_phases = ClearedPhases(views)
    /\ transparent_phases = ClearedPhases(views)
    /\ errors = <<>>
    /\ hook_calls = <<>>
    /\ drawn = EmptyMap
    /\ in_flight = EmptyMap

Step(from, to) == pc = from /\ pc' = to

(***************************************************************************)
(* Instance extraction on its own: the app changes visibility flags and    *)
(* material assignments between frames, each frame extracts.               *)
(***************************************************************************)
UpdateVisibility ==
    /\ pc = "update"
    /\ \E e \in Entities, b \in BOOLEAN : SetViewVisibility(e, b)
    /\ UNCHANGED <<pc, extractVars, assetVars, prepareVars, viewVars, meshVars, queueVars>>

UpdateHandle ==
    /\ pc = "update"
    /\ \E e \in Entities, m \in Materials \cup {NoHandle} : SetHandle(e, m)
    /\ UNCHANGED <<pc, extractVars, assetVars, prepareVars, viewVars, meshVars, queueVars>>

ExtractInstances ==
    /\ Step("update", "extracted")
    /\ extract_material_meshes_2d
    /\ UNCHANGED <<worldVars, assetVars, prepareVars, viewVars, meshVars, queueVars>>

ExtractedFrameEnds ==
    /\ Step("extracted", "update")
    /\ prev_instances' = RenderMaterial2dInstances_default
    /\ UNCHANGED <<worldVars, material_instances, assetVars, prepareVars, viewVars, meshVars,
                   queueVars>>

NextExtract ==
    \/ UpdateVisibility
    \/ UpdateHandle
    \/ ExtractInstances
    \/ ExtractedFrameEnds

SpecExtract == Init /\ [][NextExtract]_vars

(***************************************************************************)
(* Material preparation on its own: the app adds, modifies and removes     *)
(* material assets and images load between frames; each frame extracts the *)
(* changed assets and prepares them.                                       *)
(***************************************************************************)
UpdateAsset ==
    /\ pc = "update"
    /\ \E m \in Materials, s \in SourceMaterials : SetAsset(m, s)
    /\ UNCHANGED <<pc, worldVars, extractVars, prepareVars, viewVars, meshVars, queueVars>>

UpdateRemoveAsset ==
    /\ pc = "update"
    /\ \E m \in Materials : RemoveAsset(m)
    /\ UNCHANGED <<pc, worldVars, extractVars, prepareVars, viewVars, meshVars, queueVars>>

UpdateImage ==
    /\ pc = "update"
    /\ \E i \in Images, ready \in BOOLEAN : SetImage(i, ready)
    /\ UNCHANGED <<pc, worldVars, extractVars, prepareVars, viewVars, meshVars, queueVars>>

ExtractAssets ==
    /\ Step("update", "prepare")
    /\ extract_render_asset
    /\ UNCHANGED <<worldVars, extractVars, viewVars, meshVars, queueVars>>

PrepareAssets ==
    /\ Step("prepare", "prepared")
    /\ prepare_assets
    /\ UNCHANGED <<worldVars, extractVars, viewVars, meshVars, queueVars>>

PreparedFrameEnds ==
    /\ Step("prepared", "update")
    /\ prev_next_frame' = <<>>
    /\ UNCHANGED <<worldVars, extractVars, assetVars, extracted_assets, extracted_removed,
                   prepare_next_frame, render_materials, viewVars, meshVars, queueVars>>

NextPrepare ==
    \/ UpdateAsset
    \/ UpdateRemoveAsset
    \/ UpdateImage
    \/ ExtractAssets
    \/ PrepareAssets
    \/ PreparedFrameEnds

SpecPrepare == Init /\ [][NextPrepare]_vars

(***************************************************************************)
(* Properties of instance extraction (SpecExtract).                        *)
(***************************************************************************)
\* C1: after extract_material_meshes_2d has run for a frame, no entity whose
\* ViewVisibility is false is in the material instance map, whether or not
\* it was in the map before.
C1_InvisibleAbsent ==
    pc = "extracted" =>
        \A e \in Entities : ~view_visibility[e] => e \notin DOMAIN material_instances

\* An entity with a material that was in the previous frame's map is now
\* invisible, and extraction has dropped it.
C1_Witness ==
    /\ pc = "extracted"
    /\ \E e \in Entities :
           /\ ~view_visibility[e]
           /\ handle[e] # NoHandle
           /\ e \in DOMAIN prev_instances
           /\ e \notin DOMAIN material_instances

\* C2: after extraction the instance map is exactly the map from the entities
\* that have a material assignment and are visible to their current
\* material id: nothing survives from an earlier frame.
C2_MapIsFunctionOfFrame ==
    pc = "extracted" =>
        material_instances =
            [e \in {x \in Entities : handle[x] # NoHandle /\ view_visibility[x]} |-> handle[e]]

\* One entity of the previous map was re-assigned another material and maps
\* to the new id; another lost its assignment while visible and is gone.
C2_Witness ==
    /\ pc = "extracted"
    /\ \E e \in DOMAIN prev_instances :
           /\ e \in DOMAIN material_instances
           /\ material_instances[e] # prev_instances[e]
           /\ material_instances[e] = handle[e]
    /\ \E e \in DOMAIN prev_instances :
           /\ handle[e] = NoHandle
           /\ view_visibility[e]
           /\ e \notin DOMAIN material_instances

(***************************************************************************)
(* Properties of material preparation (SpecPrepare).                       *)
(***************************************************************************)
\* The material that prepare_assets hands to prepare_asset for id m: this
\* frame's extracted value, else the value queued by the previous frame.
PrepareInput(m) ==
    IF m \in DOMAIN extracted_assets THEN extracted_assets[m]
    ELSE QueuedAsset(prepare_next_frame, m)

\* C8: when prepare_asset fails with RetryNextUpdate the cache entry of that id
\* is neither written nor removed by the failure (only an upstream removal
\* of the asset takes it out) and the very same source material is queued
\* again; a prepared entry leaves the cache only when the asset was removed
\* upstream.
C8_RetryKeepsCacheAndSource ==
    [][pc = "prepare" =>
        \A m \in Materials :
            /\ m \in QueuedIds(prepare_next_frame') =>
                   /\ render_materials'[m] =
                          (IF m \in extracted_removed THEN NoAsset ELSE render_materials[m])
                   /\ QueuedAsset(prepare_next_frame', m) = PrepareInput(m)
            /\ (render_materials[m] # NoAsset /\ render_materials'[m] = NoAsset) =>
                   m \in extracted_removed]_vars

\* A material prepared in an earlier frame was modified, the new value's
\* preparation failed with RetryNextUpdate, and the earlier entry is still cached.
C8_Witness ==
    /\ pc = "prepared"
    /\ \E m \in Materials :
           /\ m \in QueuedIds(prepare_next_frame)
           /\ QueuedAsset(prepare_next_frame, m) = assets[m]
           /\ render_materials[m] # NoAsset
           /\ render_materials[m].key # assets[m].data

\* C10: once the current value of a material asset has been prepared, after
\* any number of failed attempts and whatever was prepared before, the cached
\* entry has the bind-group key, alpha mode, depth bias and key bits of a
\* first-attempt success.
C10_PreparationIdempotent ==
    LET \* The cache-relevant fields of a prepared material.
        CacheFields(p) ==
            [key |-> p.key,
             alpha_mode |-> p.properties.alpha_mode,
             depth_bias |-> p.properties.depth_bias,
             mesh_pipeline_key_bits |-> p.properties.mesh_pipeline_key_bits]
        \* What a first attempt with every dependency ready produces.
        FirstAttempt(material) == prepare_asset(material, Images, NoBindGroup).asset
    IN
    pc = "prepared" =>
        \A m \in Materials :
            (assets[m] # NoAsset /\ m \notin QueuedIds(prepare_next_frame)) =>
                /\ render_materials[m] # NoAsset
                /\ CacheFields(render_materials[m]) = CacheFields(FirstAttempt(assets[m]))

\* A material whose preparation failed in the previous frame has now been
\* prepared from the value that was handed back.
C10_Witness ==
    /\ pc = "prepared"
    /\ \E m \in QueuedIds(prev_next_frame) :
           /\ m \notin QueuedIds(prepare_next_frame)
           /\ assets[m] = QueuedAsset(prev_next_frame, m)
           /\ render_materials[m] # NoAsset
           /\ render_materials[m].properties.depth_bias # f32_round(0, 0)

(***************************************************************************)
(* Queuing on its own. The earlier stages of the frame have left the       *)
(* instance map, the mesh instances and the render meshes in any           *)
(* combination (drawn by InitQueue); materials finish preparing or are     *)
(* removed between frames. queue_material2d_meshes runs once per frame;    *)
(* the next frame's extraction clears the phases and rebuilds the mesh     *)
(* instances.                                                              *)
(***************************************************************************)
\* The source a material id is staged from and the bind group of the staged
\* prepared material.
StagedSource(m) ==
    IF m % 2 = 1 THEN Material("Opaque", f32_round(0, 0), 10, NoImage)
    ELSE Material("Blend", f32_round(1, 0), 11, 1)

StagedBindGroup(m) == [owner |-> m, generation |-> 0]

StagedMaterial(m) == prepare_asset(StagedSource(m), Images, StagedBindGroup(m)).asset

\* The instance maps extraction can leave, and the mesh instance tables.
InstanceMaps ==
    UNION {[es -> Materials] : es \in SUBSET Entities}

MeshInstanceTables ==
    {[e \in es |-> ExtractedMeshInstance(e)] : es \in SUBSET Entities}

StageMaterial ==
    /\ pc = "update"
    /\ \E m \in Materials :
           render_materials' =
               [render_materials EXCEPT ![m] =
                    IF @ = NoAsset THEN StagedMaterial(m) ELSE NoAsset]
    /\ UNCHANGED <<pc, worldVars, extractVars, assetVars, extracted_assets,
                   extracted_removed, prepare_next_frame, prev_next_frame, viewVars,
                   meshVars, queueVars>>

QueueMeshes ==
    /\ Step("update", "queued")
    /\ queue_material2d_meshes
    /\ UNCHANGED <<worldVars, extractVars, assetVars, prepareVars>>

\* The next frame begins: the phases are cleared and the mesh instances are
\* extracted anew.
QueuedFrameEnds ==
    /\ Step("queued", "update")
    /\ opaque_phases' = ClearedPhases(views)
    /\ transparent_phases' = ClearedPhases(views)
    /\ errors' = <<>>
    /\ hook_calls' = <<>>
    /\ drawn' = EmptyMap
    /\ in_flight' = in_flight
    /\ render_mesh_instances' =
           [e \in DOMAIN render_mesh_instances |-> ExtractedMeshInstance(e)]
    /\ UNCHANGED <<worldVars, extractVars, assetVars, prepareVars, viewVars,
                   render_meshes, pipelines, pipeline_cache>>

InitQueue ==
    /\ pc = "update"
    /\ handle = [e \in Entities |-> NoHandle]
    /\ view_visibility = [e \in Entities |-> FALSE]
    /\ material_instances \in InstanceMaps
    /\ prev_instances = RenderMaterial2dInstances_default
    /\ assets = [m \in Materials |-> NoAsset]
    /\ asset_changed = {}
    /\ asset_removed = {}
    /\ images = {}
    /\ extracted_assets = EmptyMap
    /\ extracted_removed = {}
    /\ prepare_next_frame = <<>>
    /\ prev_next_frame = <<>>
    /\ render_materials = RenderAssets_default
    /\ views = [v \in Views |-> ViewOf(v)]
    /\ visible_entities = [v \in Views |-> VisibleOrder(v, Entities)]
    /\ material2d_pipeline \in {from_world(M) : M \in MaterialTypes}
    /\ render_mesh_instances \in MeshInstanceTables
    /\ render_meshes \in SUBSET MeshIds
    /\ pipelines = EmptyMap
    /\ pipeline_cache = EmptyMap
    /\ opaque_phases = ClearedPhases(views)
    /\ transparent_phases = ClearedPhases(views)
    /\ errors = <<>>
    /\ hook_calls = <<>>
    /\ drawn = EmptyMap
    /\ in_flight = EmptyMap

NextQueue ==
    \/ StageMaterial
    \/ QueueMeshes
    \/ QueuedFrameEnds

SpecQueue == InitQueue /\ [][NextQueue]_vars

(***************************************************************************)
(* Properties of queuing (SpecQueue).                                      *)
(***************************************************************************)
\* The step in which queue_material2d_meshes runs.
QueueRuns == pc # "queued" /\ pc' = "queued"

\* The views whose visible entities queue_material2d_meshes walks: those with
\* both phases, unless the system returns early on an empty instance map.
ProcessedViews ==
    IF DOMAIN material_instances = {} THEN {}
    ELSE (DOMAIN views) \cap (DOMAIN opaque_phases) \cap (DOMAIN transparent_phases)

VisibleIn(v) == {visible_entities[v][i] : i \in DOMAIN visible_entities[v]}

\* The (view, visible entity) pairs processed in the frame.
ProcessedPairs == {<<v, e>> : v \in ProcessedViews, e \in Entities} \cap
                  {p \in Views \X Entities : p[2] \in VisibleIn(p[1])}

\* The four skip conditions.
AbsentFromInstanceMap(e) == e \notin DOMAIN material_instances
AbsentFromMeshInstances(e) == e \notin DOMAIN render_mesh_instances
MaterialNotPrepared(e) ==
    /\ e \in DOMAIN material_instances
    /\ render_materials[material_instances[e]] = NoAsset
MeshNotReady(e) ==
    /\ e \in DOMAIN render_mesh_instances
    /\ render_mesh_instances[e].mesh_asset_id \notin render_meshes

SkipCondition(e) ==
    \/ AbsentFromInstanceMap(e)
    \/ AbsentFromMeshInstances(e)
    \/ MaterialNotPrepared(e)
    \/ MeshNotReady(e)

\* For an entity that passes the skip conditions: its prepared material, its
\* Material2dKey in view v and its key in the pipeline memo table.
MaterialOf(e) == render_materials[material_instances[e]]
MeshOf(e) == RenderMeshOf(render_mesh_instances[e].mesh_asset_id)

Material2dKeyOf(v, e) ==
    [mesh_key |-> ViewKey(views[v].msaa, views[v].hdr, views[v].tonemapping, views[v].dither)
                    \cup from_primitive_topology(MeshOf(e).primitive_topology)
                    \cup MaterialOf(e).properties.mesh_pipeline_key_bits,
     bind_group_data |-> MaterialOf(e).key]

CacheKeyOf(v, e) == CacheKey(Material2dKeyOf(v, e), MeshOf(e).layout)

\* Pipeline specialization fails for the pair: the descriptor cannot be built.
SpecializationFails(v, e) ==
    ~Material2dPipeline_specialize(material2d_pipeline, Material2dKeyOf(v, e),
                                   MeshOf(e).layout).ok

\* The items of entity e in the phases `opaque` and `transparent` of view v.
OpaqueItemsOf(opaque, v, e) == {i \in DOMAIN opaque[v] : opaque[v][i].entity = e}
TransparentItemsOf(transparent, v, e) ==
    {i \in DOMAIN transparent[v] : transparent[v][i].entity = e}

ItemCount(v, e) ==
    Cardinality(OpaqueItemsOf(opaque_phases, v, e))
        + Cardinality(TransparentItemsOf(transparent_phases, v, e))

\* C3: every processed (view, visible entity) pair ends in exactly one of three
\* ways: one opaque item, one transparent item, or nothing; never an item
\* in both phases, and nothing only under a skip condition or a
\* specialization failure.
C3_OneOutcomePerPair ==
    pc = "queued" =>
        \A p \in ProcessedPairs :
            /\ ItemCount(p[1], p[2]) <= 1
            /\ ItemCount(p[1], p[2]) = 0 =>
                   (SkipCondition(p[2]) \/ SpecializationFails(p[1], p[2]))

\* In one view, one entity went to the opaque phase, another to the
\* transparent phase, and in another view an entity got nothing.
C3_Witness ==
    /\ pc = "queued"
    /\ \E v \in ProcessedViews : opaque_phases[v] # <<>> /\ transparent_phases[v] # <<>>
    /\ \E p \in ProcessedPairs : ItemCount(p[1], p[2]) = 0

\* C4: for an entity that passes the skip conditions and specializes, the alpha
\* mode alone picks the phase: Opaque gives one opaque item under the bin
\* key (pipeline, opaque draw function, mesh asset id, material bind group
\* id), classified by automatic_batching; Blend gives one Transparent2d item
\* (entity, transparent draw function, pipeline, batch range 0..1, no extra
\* index).
C4_PhaseByAlphaMode ==
    pc = "queued" =>
        \A p \in ProcessedPairs :
            LET v == p[1]
                e == p[2]
            IN (~SkipCondition(e) /\ ~SpecializationFails(v, e)) =>
                   LET o == OpaqueItemsOf(opaque_phases, v, e)
                       t == TransparentItemsOf(transparent_phases, v, e)
                   IN /\ CacheKeyOf(v, e) \in DOMAIN pipelines
                      /\ IF MaterialOf(e).properties.alpha_mode = "Opaque"
                         THEN /\ t = {}
                              /\ Cardinality(o) = 1
                              /\ \A i \in o :
                                     /\ opaque_phases[v][i].bin_key =
                                            [pipeline |-> pipelines[CacheKeyOf(v, e)],
                                             draw_function |-> DrawOpaque2d,
                                             asset_id |-> render_mesh_instances[e].mesh_asset_id,
                                             material_bind_group_id |-> MaterialOf(e).bind_group]
                                     /\ opaque_phases[v][i].phase_type =
                                            (IF render_mesh_instances[e].automatic_batching
                                             THEN "BatchableMesh" ELSE "UnbatchableMesh")
                         ELSE /\ o = {}
                              /\ Cardinality(t) = 1
                              /\ \A i \in t :
                                     /\ transparent_phases[v][i].draw_function = DrawTransparent2d
                                     /\ transparent_phases[v][i].pipeline =
                                            pipelines[CacheKeyOf(v, e)]
                                     /\ transparent_phases[v][i].batch_range = <<0, 1>>
                                     /\ transparent_phases[v][i].extra_index =
                                            PhaseItemExtraIndex_NONE

\* The HDR view holds an opaque item of a batchable mesh and a transparent
\* item of an unbatchable one.
C4_Witness ==
    /\ pc = "queued"
    /\ \E v \in ProcessedViews :
           /\ views[v].hdr
           /\ \E i \in DOMAIN opaque_phases[v] :
                  opaque_phases[v][i].phase_type = "BatchableMesh"
           /\ \E i \in DOMAIN transparent_phases[v] :
                  ~render_mesh_instances[transparent_phases[v][i].entity].automatic_batching

\* The memo keys of the pairs that pass the skip conditions.
RequestedKeys == {CacheKeyOf(p[1], p[2]) : p \in {q \in ProcessedPairs : ~SkipCondition(q[2])}}

\* C6: an entity under any of the four skip conditions gets no item in either
\* phase of the view, causes no specialization request and no error; the
\* other entities of the view and the other views are still processed.
C6_SkipIsSilent ==
    [][QueueRuns =>
        /\ \A p \in ProcessedPairs :
               SkipCondition(p[2]) =>
                   /\ OpaqueItemsOf(opaque_phases', p[1], p[2]) = {}
                   /\ TransparentItemsOf(transparent_phases', p[1], p[2]) = {}
                   /\ \A i \in DOMAIN errors' :
                          ~(errors'[i].view = p[1] /\ errors'[i].entity = p[2])
        /\ (DOMAIN pipelines') \ (DOMAIN pipelines) \subseteq RequestedKeys
        /\ \A p \in ProcessedPairs :
               (~SkipCondition(p[2]) /\ ~SpecializationFails(p[1], p[2])) =>
                   (OpaqueItemsOf(opaque_phases', p[1], p[2]) # {}
                        \/ TransparentItemsOf(transparent_phases', p[1], p[2]) # {})]_vars

\* An entity whose material is not prepared yet was passed over in a view in
\* which a later entity was queued, and no error was logged.
C6_Witness ==
    /\ pc = "queued"
    /\ errors = <<>>
    /\ \E v \in ProcessedViews :
           \E i, j \in DOMAIN visible_entities[v] :
               /\ i < j
               /\ MaterialNotPrepared(visible_entities[v][i])
               /\ ~AbsentFromMeshInstances(visible_entities[v][i])
               /\ ~MeshNotReady(visible_entities[v][i])
               /\ ItemCount(v, visible_entities[v][i]) = 0
               /\ ItemCount(v, visible_entities[v][j]) = 1

\* The visible entities with entity e taken out of view v's list.
VisibleWithout(v, e) ==
    [visible_entities EXCEPT ![v] = SelectSeq(@, LAMBDA x : x # e)]

\* What the queuing step would produce had the pair (v, e) not existed.
QueuedWithout(v, e) ==
    QueuedMeshes(
        QueueState(pipelines, pipeline_cache, render_mesh_instances, opaque_phases,
                   transparent_phases, errors, hook_calls),
        views, VisibleWithout(v, e), material2d_pipeline,
        material_instances, render_materials, render_meshes)

\* C7: when specialization fails for an entity of a view, only that pair is
\* dropped: no item is added for it, the error is logged, everything else
\* is queued exactly as if the pair had not existed, and nothing is cached
\* for the key, so the next frame specializes it again.
C7_SpecializationFailureIsLocal ==
    [][QueueRuns =>
        \A p \in ProcessedPairs :
            (~SkipCondition(p[2]) /\ SpecializationFails(p[1], p[2])) =>
                /\ OpaqueItemsOf(opaque_phases', p[1], p[2]) = {}
                /\ TransparentItemsOf(transparent_phases', p[1], p[2]) = {}
                /\ \E i \in DOMAIN errors' :
                       errors'[i].view = p[1] /\ errors'[i].entity = p[2]
                /\ CacheKeyOf(p[1], p[2]) \notin DOMAIN pipelines'
                /\ LET without == QueuedWithout(p[1], p[2]) IN
                       /\ opaque_phases' = without.opaque
                       /\ transparent_phases' = without.transparent
                       /\ pipelines' = without.pipelines
                       /\ pipeline_cache' = without.pipeline_cache
                       /\ render_mesh_instances' = without.mesh_instances]_vars

\* Specialization failed for an entity in one view; a later entity of that view
\* was queued, and the failing entity itself was queued in another view.
C7_Witness ==
    /\ pc = "queued"
    /\ \E k \in DOMAIN errors :
           LET v == errors[k].view
               e == errors[k].entity
           IN /\ ItemCount(v, e) = 0
              /\ \E i, j \in DOMAIN visible_entities[v] :
                     /\ i < j
                     /\ visible_entities[v][i] = e
                     /\ ItemCount(v, visible_entities[v][j]) = 1
              /\ \E w \in ProcessedViews : w # v /\ ItemCount(w, e) = 1

(***************************************************************************)
(* View key construction on its own: the first view carries any            *)
(* combination of HDR, MSAA sample count, Tonemapping and DebandDither;    *)
(* every entity has a prepared material and a ready mesh, and each frame   *)
(* queues them.                                                            *)
(***************************************************************************)
ViewConfigs ==
    [hdr : BOOLEAN, msaa : MsaaSamples, tonemapping : Tonemappings \cup {NoComponent},
     dither : DebandDithers \cup {NoComponent}, phases : {TRUE}]

\* The material assigned to entity e at startup.
HandleOf(e) == ((e - 1) % NumMaterials) + 1

InitViewKey ==
    /\ pc = "update"
    /\ handle = [e \in Entities |-> HandleOf(e)]
    /\ view_visibility = [e \in Entities |-> TRUE]
    /\ material_instances = [e \in Entities |-> HandleOf(e)]
    /\ prev_instances = RenderMaterial2dInstances_default
    /\ assets = [m \in Materials |-> StagedSource(m)]
    /\ asset_changed = {}
    /\ asset_removed = {}
    /\ images = Images
    /\ extracted_assets = EmptyMap
    /\ extracted_removed = {}
    /\ prepare_next_frame = <<>>
    /\ prev_next_frame = <<>>
    /\ render_materials = [m \in Materials |-> StagedMaterial(m)]
    /\ views \in {[v \in Views |-> IF v = 1 THEN c ELSE ViewOf(v)] : c \in ViewConfigs}
                 \cup {[v \in Views |-> ViewOf(order[v])] : order \in Permutations(Views)}
    /\ visible_entities = [v \in Views |-> VisibleOrder(v, Entities)]
    /\ material2d_pipeline = from_world(DefaultMaterialType)
    /\ render_mesh_instances = [e \in Entities |-> ExtractedMeshInstance(e)]
    /\ render_meshes = MeshIds
    /\ pipelines = EmptyMap
    /\ pipeline_cache = EmptyMap
    /\ opaque_phases = ClearedPhases(views)
    /\ transparent_phases = ClearedPhases(views)
    /\ errors = <<>>
    /\ hook_calls = <<>>
    /\ drawn = EmptyMap
    /\ in_flight = EmptyMap

NextViewKey ==
    \/ QueueMeshes
    \/ QueuedFrameEnds

SpecViewKey == InitViewKey /\ [][NextViewKey]_vars

\* The mesh keys of the pipelines that the items queued for view v draw with.
QueuedKeysOf(v) ==
    {opaque_phases[v][i].bin_key.pipeline.created_for.key.mesh_key :
         i \in DOMAIN opaque_phases[v]}
    \cup {transparent_phases[v][i].pipeline.created_for.key.mesh_key :
              i \in DOMAIN transparent_phases[v]}

\* C5: the key of every pipeline queued for a view carries the view's MSAA
\* sample count and its HDR flag; for an HDR view it carries neither
\* TONEMAP_IN_SHADER nor a tonemapping method bit nor DEBAND_DITHER,
\* whatever the view's components; for a non-HDR view TONEMAP_IN_SHADER is
\* set and the method field holds the method iff a Tonemapping component is
\* present, and DEBAND_DITHER is set iff DebandDither is Enabled.
C5_ViewKeyFlags ==
    pc = "queued" =>
        \A v \in ProcessedViews :
            \A k \in QueuedKeysOf(v) :
                /\ {b \in k : b[1] = "MSAA"} = from_msaa_samples(views[v].msaa)
                /\ (HDR \subseteq k) <=> views[v].hdr
                /\ views[v].hdr =>
                       k \cap (TONEMAP_IN_SHADER \cup TONEMAP_METHOD_RESERVED_BITS
                                 \cup DEBAND_DITHER) = {}
                /\ ~views[v].hdr =>
                       /\ (TONEMAP_IN_SHADER \subseteq k) <=> (views[v].tonemapping # NoComponent)
                       /\ k \cap TONEMAP_METHOD_RESERVED_BITS =
                              (IF views[v].tonemapping # NoComponent
                               THEN tonemapping_pipeline_key(views[v].tonemapping)
                               ELSE {})
                       /\ (DEBAND_DITHER \subseteq k) <=> (views[v].dither = "Enabled")

\* A non-HDR view and an HDR view with the same tonemapping method and dither
\* enabled have both queued items: the first one's key carries the
\* tonemapping and dither flags, the second one's does not.
C5_Witness ==
    /\ pc = "queued"
    /\ \E v, w \in ProcessedViews :
           /\ ~views[v].hdr /\ views[w].hdr
           /\ views[v].tonemapping = views[w].tonemapping
           /\ views[v].tonemapping \notin {NoComponent, "None"}
           /\ views[v].dither = "Enabled" /\ views[w].dither = "Enabled"
           /\ \E k \in QueuedKeysOf(v) : (TONEMAP_IN_SHADER \cup DEBAND_DITHER) \subseteq k
           /\ \E k \in QueuedKeysOf(w) : k \cap (TONEMAP_IN_SHADER \cup DEBAND_DITHER) = {}

(***************************************************************************)
(* The whole frame. After startup every entity has its material handle and *)
(* is visible, and the material assets have been added (their events are   *)
(* pending). Between frames the app toggles visibility and modifies        *)
(* material assets, and images load and unload. A frame runs the           *)
(* ExtractSchedule, then the systems of the Render schedule in the order   *)
(* the plugin registers them, and ends.                                    *)
(***************************************************************************)
\* Mutation: queue_material2d_meshes is ordered before prepare_assets.
RenderScheduleQueueFirst == <<"queue_material2d_meshes", "prepare_assets">>

\* The order of the two systems in the Render schedule:
\* queue_material2d_meshes.after(prepare_assets::<PreparedMaterial2d<M>>).
RenderSchedule == <<"prepare_assets", "queue_material2d_meshes">>

\* The position of the frame once a system has run, and before it runs.
StageDone(system) == IF system = "prepare_assets" THEN "prepared" ELSE "queued"

StageBefore(system) ==
    IF RenderSchedule[1] = system THEN "extracted" ELSE StageDone(RenderSchedule[1])

InitFrame ==
    /\ pc = "update"
    /\ handle = [e \in Entities |-> HandleOf(e)]
    /\ view_visibility = [e \in Entities |-> TRUE]
    /\ material_instances = RenderMaterial2dInstances_default
    /\ prev_instances = RenderMaterial2dInstances_default
    /\ assets = [m \in Materials |-> StagedSource(m)]
    /\ asset_changed = Materials
    /\ asset_removed = {}
    /\ images = {}
    /\ extracted_assets = EmptyMap
    /\ extracted_removed = {}
    /\ prepare_next_frame = <<>>
    /\ prev_next_frame = <<>>
    /\ render_materials = RenderAssets_default
    /\ views = [v \in Views |-> ViewOf(v)]
    /\ visible_entities = [v \in Views |-> <<>>]
    /\ material2d_pipeline \in {from_world(M) : M \in MaterialTypes}
    /\ render_mesh_instances = EmptyMap
    /\ render_meshes = {}
    /\ pipelines = EmptyMap
    /\ pipeline_cache = EmptyMap
    /\ opaque_phases = ClearedPhases(views)
    /\ transparent_phases = ClearedPhases(views)
    /\ errors = <<>>
    /\ hook_calls = <<>>
    /\ drawn = EmptyMap
    /\ in_flight = EmptyMap

\* Mesh and view extraction: the mesh instances are rebuilt from the visible
\* entities, and every view gets the list of the entities that it sees
\* itself. An entity is visible when at least one view sees it: all views see
\* every visible entity, or one of the entities is seen by one view alone.
extract_mesh2d ==
    LET visible == {e \in Entities : view_visibility[e]} IN
    /\ render_mesh_instances' = [e \in visible |-> ExtractedMeshInstance(e)]
    /\ \E seen \in {[v \in Views |-> visible]}
                       \cup {[v \in Views |-> IF v = one THEN visible ELSE visible \ {e}] :
                                 one \in Views, e \in visible} :
           visible_entities' = [v \in Views |-> VisibleOrder(v, seen[v])]

\* The ExtractSchedule of the frame.
FrameExtract ==
    /\ Step("update", "extracted")
    /\ extract_material_meshes_2d
    /\ extract_render_asset
    /\ extract_mesh2d
    /\ UNCHANGED <<worldVars, views, material2d_pipeline, render_meshes, queueVars>>

\* prepare_assets for the materials; the meshes are uploaded by their own
\* prepare_assets in the same set.
FramePrepare ==
    /\ Step(StageBefore("prepare_assets"), StageDone("prepare_assets"))
    /\ prepare_assets
    /\ render_meshes' = MeshIds
    /\ UNCHANGED <<worldVars, extractVars, viewVars, render_mesh_instances, queueVars>>

FrameQueue ==
    /\ Step(StageBefore("queue_material2d_meshes"), StageDone("queue_material2d_meshes"))
    /\ queue_material2d_meshes
    /\ UNCHANGED <<worldVars, extractVars, assetVars, prepareVars>>

\* The frame ends; the phases and the views' visible-entity lists, which the
\* next extraction rebuilds, are cleared for the next one.
FrameEnds ==
    /\ Step(StageDone(RenderSchedule[Len(RenderSchedule)]), "update")
    /\ opaque_phases' = ClearedPhases(views)
    /\ transparent_phases' = ClearedPhases(views)
    /\ errors' = <<>>
    /\ hook_calls' = <<>>
    /\ drawn' = EmptyMap
    /\ in_flight' = in_flight
    /\ prev_instances' = RenderMaterial2dInstances_default
    /\ prev_next_frame' = <<>>
    /\ visible_entities' = [v \in Views |-> <<>>]
    /\ UNCHANGED <<worldVars, material_instances, assetVars, extracted_assets,
                   extracted_removed, prepare_next_frame, render_materials, views,
                   material2d_pipeline, meshVars, pipelines, pipeline_cache>>

\* The app modifies a material asset (Assets::get_mut).
FrameModifyAsset ==
    /\ pc = "update"
    /\ \E m \in Materials : SetAsset(m, StagedSource(m))
    /\ UNCHANGED <<pc, worldVars, extractVars, prepareVars, viewVars, meshVars, queueVars>>

Next ==
    \/ UpdateVisibility
    \/ FrameModifyAsset
    \/ UpdateImage
    \/ FrameExtract
    \/ FramePrepare
    \/ FrameQueue
    \/ FrameEnds

Spec == InitFrame /\ [][Next]_vars

(***************************************************************************)
(* Properties of the whole frame (Spec).                                   *)
(***************************************************************************)
\* The views that have both 2D phases.
PhaseViews == (DOMAIN views) \cap (DOMAIN opaque_phases) \cap (DOMAIN transparent_phases)

\* Every dependency of the material asset m is on the GPU.
DependencyReady(m) ==
    /\ assets[m] # NoAsset
    /\ assets[m].texture # NoImage => assets[m].texture \in images

\* The visible entities that use material m and whose mesh is ready.
DrawableUsers(m) ==
    {e \in Entities :
        /\ view_visibility[e]
        /\ handle[e] = m
        /\ e \in DOMAIN render_mesh_instances
        /\ render_mesh_instances[e].mesh_asset_id \in render_meshes}

\* C9 as stated: when this frame's queuing has run, a material that failed
\* with RetryNextUpdate in the previous frame and whose dependency was ready
\* in this one is in the cache, and every visible entity using it with a
\* ready mesh has a draw item in some view.
C9_RetriedUsersAlwaysDrawn ==
    pc = "queued" =>
        \A m \in QueuedIds(prev_next_frame) :
            DependencyReady(m) =>
                /\ render_materials[m] # NoAsset
                /\ \A e \in DrawableUsers(m) : \E v \in PhaseViews : ItemCount(v, e) >= 1

\* C9, amended: when this frame's queuing has run, every material whose
\* dependencies are ready is in the cache, whether it was added, modified or
\* retried in this frame; and every visible entity using it with a ready
\* mesh has one draw item in a view with 2D phases whenever that view lists
\* the entity as visible and its pipeline specialization succeeds for the
\* view. Where specialization fails the error is logged and the entity has no
\* item in that view, and it has none in a view that does not list it.
C9_RetryConvergence ==
    pc = "queued" =>
        \A m \in Materials :
            DependencyReady(m) =>
                /\ render_materials[m] # NoAsset
                /\ \A e \in DrawableUsers(m) :
                       \A v \in PhaseViews :
                           LET logged == \E i \in DOMAIN errors :
                                             errors[i].view = v /\ errors[i].entity = e
                           IN IF e \notin VisibleIn(v)
                              THEN ItemCount(v, e) = 0 /\ ~logged
                              ELSE IF SpecializationFails(v, e)
                              THEN ItemCount(v, e) = 0 /\ logged
                              ELSE ItemCount(v, e) = 1 /\ ~logged

\* A material failed with RetryNextUpdate in the previous frame and its image
\* was ready in this one: a visible entity using it has been queued in the view
\* that lists it, and has no item in another view with 2D phases, which does
\* not list it.
C9_Witness ==
    /\ pc = "queued"
    /\ \E m \in QueuedIds(prev_next_frame) :
           /\ DependencyReady(m)
           /\ assets[m].texture # NoImage
           /\ render_materials[m] # NoAsset
           /\ \E e \in DrawableUsers(m) : \E v, w \in PhaseViews :
                  /\ e \in VisibleIn(v)
                  /\ ItemCount(v, e) = 1
                  /\ e \notin VisibleIn(w)
                  /\ ItemCount(w, e) = 0

(***************************************************************************)
(* Properties of the pipeline memo table (SpecQueue).                      *)
(***************************************************************************)
\* C11: over any sequence of frames, a key that has been specialized keeps its
\* pipeline handle: no step evicts or replaces an entry; a queuing step
\* never invokes the material's specialize hook for a key that is already
\* cached, invokes it at most once for a key it caches, creates at most one
\* pipeline per key, and every request for a cached key is answered with
\* the handle the first request got.
C11_PipelineCacheReuse ==
    [][/\ \A k \in DOMAIN pipelines : k \in DOMAIN pipelines' /\ pipelines'[k] = pipelines[k]
       /\ QueueRuns =>
              /\ \A i \in DOMAIN hook_calls' : hook_calls'[i].key \notin DOMAIN pipelines
              /\ \A i, j \in DOMAIN hook_calls' :
                     (i # j /\ hook_calls'[i].key = hook_calls'[j].key) =>
                         hook_calls'[i].key \notin DOMAIN pipelines'
              /\ \A id \in DOMAIN pipeline_cache' : id.serial = 1
              /\ \A p \in ProcessedPairs :
                     (~SkipCondition(p[2]) /\ CacheKeyOf(p[1], p[2]) \in DOMAIN pipelines) =>
                         ({opaque_phases'[p[1]][i].bin_key.pipeline :
                               i \in OpaqueItemsOf(opaque_phases', p[1], p[2])}
                          \cup {transparent_phases'[p[1]][i].pipeline :
                               i \in TransparentItemsOf(transparent_phases', p[1], p[2])}) =
                             {pipelines[CacheKeyOf(p[1], p[2])]}]_vars

\* A frame after the first: items were queued in both phases, every request was
\* answered from the memo table and the hook did not run.
C11_Witness ==
    /\ pc = "queued"
    /\ hook_calls = <<>>
    /\ pipelines # EmptyMap
    /\ \E v \in ProcessedViews : opaque_phases[v] # <<>> /\ transparent_phases[v] # <<>>

(***************************************************************************)
(* Properties of Material2dPipeline::specialize (SpecQueue).               *)
(***************************************************************************)
\* C12: the descriptor handed to the material's specialize hook is the base
\* mesh pipeline's descriptor for key.mesh_key and the mesh layout, with
\* the vertex (fragment) shader replaced iff the material type declares a
\* non-default one, and with exactly the three bind group layouts view,
\* mesh, material in that order; with the default no-op hook the pipeline
\* is queued with that very descriptor.
C12_SpecializeDescriptor ==
    LET ExpectedShader(shader_ref) ==
            IF shader_ref.ref = "Default" THEN MESH2D_SHADER_HANDLE
            ELSE IF shader_ref.ref = "Handle" THEN [handle |-> shader_ref.handle]
            ELSE [handle |-> shader_ref.path]
        ExpectedLayouts ==
            <<material2d_pipeline.mesh2d_pipeline.view_layout,
              material2d_pipeline.mesh2d_pipeline.mesh_layout,
              material2d_pipeline.material2d_layout>>
    IN
    /\ \A i \in DOMAIN hook_calls :
           LET d == hook_calls[i].descriptor
               k == hook_calls[i].key
           IN /\ d.mesh_key = k.key.mesh_key
              /\ d.vertex.buffers = k.layout
              /\ d.vertex.shader = ExpectedShader(material2d_pipeline.marker.vertex_shader)
              /\ d.fragment.shader = ExpectedShader(material2d_pipeline.marker.fragment_shader)
              /\ d.layout = ExpectedLayouts
              /\ (material2d_pipeline.marker.specialize = "Default"
                      /\ k \in DOMAIN pipelines) =>
                     pipeline_cache[pipelines[k]] = d
    /\ \A id \in DOMAIN pipeline_cache : pipeline_cache[id].layout = ExpectedLayouts

\* A material type with the default vertex shader and a fragment shader of its
\* own has specialized a pipeline in this frame: the vertex stage keeps the
\* base shader, the fragment stage has the material's.
C12_Witness ==
    /\ pc = "queued"
    /\ material2d_pipeline.vertex_shader = NoShader
    /\ material2d_pipeline.fragment_shader # NoShader
    /\ \E i \in DOMAIN hook_calls :
           /\ hook_calls[i].key \in DOMAIN pipelines
           /\ hook_calls[i].descriptor.vertex.shader = MESH2D_SHADER_HANDLE
           /\ hook_calls[i].descriptor.fragment.shader # MESH2D_SHADER_HANDLE

(***************************************************************************)
(* Properties of the prepared material's properties (SpecPrepare).         *)
(***************************************************************************)
\* C13: a material prepared by a preparation step has mesh_pipeline_key_bits
\* equal to the BLEND_ALPHA flag alone when the source material's alpha mode
\* is Blend and equal to the empty bit set for any other alpha mode, and its
\* alpha_mode and depth_bias are those of the source material it was
\* prepared from.
C13_PreparedProperties ==
    [][pc = "prepare" =>
        \A m \in Materials :
            (m \in DOMAIN extracted_assets \cup QueuedIds(prepare_next_frame)
                 /\ m \notin QueuedIds(prepare_next_frame')
                 /\ render_materials'[m] # NoAsset) =>
                LET source == PrepareInput(m)
                    p == render_materials'[m].properties
                IN
                /\ (BLEND_ALPHA \subseteq p.mesh_pipeline_key_bits) = (source.alpha_mode = "Blend")
                /\ source.alpha_mode # "Blend" => p.mesh_pipeline_key_bits = {}
                /\ p.mesh_pipeline_key_bits \subseteq BLEND_ALPHA
                /\ p.alpha_mode = source.alpha_mode
                /\ p.depth_bias = source.depth_bias]_vars

\* Preparation has run and the cache holds a Blend material with the blend flag
\* and an Opaque material with no flag, each prepared from its current source.
C13_Witness ==
    /\ pc = "prepared"
    /\ \E m, n \in Materials :
           /\ assets[m] # NoAsset /\ assets[n] # NoAsset
           /\ render_materials[m] # NoAsset /\ render_materials[n] # NoAsset
           /\ assets[m].alpha_mode = "Blend"
           /\ render_materials[m].properties.alpha_mode = "Blend"
           /\ render_materials[m].properties.mesh_pipeline_key_bits = BLEND_ALPHA
           /\ render_materials[m].properties.depth_bias = assets[m].depth_bias
           /\ assets[n].alpha_mode = "Opaque"
           /\ render_materials[n].properties.alpha_mode = "Opaque"
           /\ render_materials[n].properties.mesh_pipeline_key_bits = {}

(***************************************************************************)
(* Properties of the per-view key (SpecViewKey).                           *)
(***************************************************************************)
\* C14: in every frame, the view-derived bits (MSAA, HDR, tonemapping, dither)
\* of every pipeline key queued for a view V are exactly the bits computed
\* from V's own Msaa, ExtractedView.hdr, Tonemapping and DebandDither,
\* whatever the number, the order and the flags of the other views.
C14_KeyFromOwnView ==
    pc = "queued" =>
        \A v \in ProcessedViews :
            \A k \in QueuedKeysOf(v) :
                {b \in k : b[1] \in {"MSAA"}} \cup (k \cap (HDR \cup TONEMAP_IN_SHADER
                     \cup TONEMAP_METHOD_RESERVED_BITS \cup DEBAND_DITHER))
                  = ViewKey(views[v].msaa, views[v].hdr, views[v].tonemapping, views[v].dither)

\* Two views with different sample counts and HDR settings were processed one
\* after the other in one frame, both queued items, and no key queued for
\* the later one is a key of the earlier one.
C14_Witness ==
    /\ pc = "queued"
    /\ \E v, w \in ProcessedViews :
           /\ v < w
           /\ views[v].msaa # views[w].msaa
           /\ views[v].hdr # views[w].hdr
           /\ views[v].tonemapping # NoComponent
           /\ QueuedKeysOf(v) # {}
           /\ QueuedKeysOf(w) # {}
           /\ QueuedKeysOf(v) \cap QueuedKeysOf(w) = {}

(***************************************************************************)
(* The transparent phase and its consumer: queue_material2d_meshes and the *)
(* other queue systems of the frame append items, then the phase is sorted *)
(* before it is drawn.                                                     *)
(***************************************************************************)
MaxOtherItems == 2

\* Mutation: the phase is consumed in insertion order.
Transparent2dUnsorted(items) == items

\* The consumer's sort of a Transparent2d phase: a stable sort, ascending by
\* sort key.
RECURSIVE Transparent2d_sort(_)
Transparent2d_sort(items) ==
    IF items = <<>> THEN <<>>
    ELSE LET i == CHOOSE x \in DOMAIN items :
                      /\ \A y \in DOMAIN items :
                             ~FloatOrd_lt(items[y].sort_key, items[x].sort_key)
                      /\ \A y \in 1..(x - 1) :
                             FloatOrd_lt(items[x].sort_key, items[y].sort_key)
             rest == [j \in 1..(Len(items) - 1) |-> IF j < i THEN items[j] ELSE items[j + 1]]
         IN <<items[i]>> \o Transparent2d_sort(rest)

\* Another queue system of the frame (sprites, another material type) appends an
\* item of its own to a view's transparent phase, before or after
\* queue_material2d_meshes runs: its first item at depth 5, the others at -2.
QueueOther ==
    /\ pc \in {"update", "queued"}
    /\ pc' = pc
    /\ \E v \in DOMAIN transparent_phases :
           LET queued == Cardinality({i \in DOMAIN transparent_phases[v] :
                                         transparent_phases[v][i].entity \notin Entities})
               k == IF queued = 0 THEN f32_round(5, 0) ELSE f32_round(-2, 0)
           IN
           /\ queued < MaxOtherItems
           /\ transparent_phases' =
                  [transparent_phases EXCEPT ![v] =
                      Append(@, [entity |-> 0,
                                 draw_function |-> "DrawOther",
                                 pipeline |->
                                     [created_for |->
                                          [key |-> [mesh_key |-> Mesh2dPipelineKey_NONE,
                                                    bind_group_data |-> 0],
                                           layout |-> {}],
                                      serial |-> 0],
                                 sort_key |-> k,
                                 batch_range |-> <<0, 1>>,
                                 extra_index |-> PhaseItemExtraIndex_NONE])]
    /\ UNCHANGED <<worldVars, extractVars, assetVars, prepareVars, viewVars, meshVars,
                   pipelines, pipeline_cache, opaque_phases, errors, hook_calls, drawn,
                   in_flight>>

\* The phase sort system: every view's transparent phase is sorted.
SortPhases ==
    /\ Step("queued", "sorted")
    /\ transparent_phases' =
           [v \in DOMAIN transparent_phases |-> Transparent2d_sort(transparent_phases[v])]
    /\ UNCHANGED <<worldVars, extractVars, assetVars, prepareVars, viewVars, meshVars,
                   pipelines, pipeline_cache, opaque_phases, errors, hook_calls, drawn,
                   in_flight>>

\* Every entity is visible in every view and has a prepared Blend material; the
\* materials differ in depth bias (0 or 3). The meshes lie at the depths of
\* ExtractedMeshInstance, or that far from the depth 2^24, where the f32 next
\* to 2^24 from above is 2^24 + 2.
InitSort ==
    /\ pc = "update"
    /\ handle = [e \in Entities |-> HandleOf(e)]
    /\ view_visibility = [e \in Entities |-> TRUE]
    /\ material_instances = [e \in Entities |-> HandleOf(e)]
    /\ prev_instances = RenderMaterial2dInstances_default
    /\ \E bias \in [Materials -> {f32_round(0, 0), f32_round(3, 0)}] :
           /\ assets = [m \in Materials |-> Material("Blend", bias[m], 11, NoImage)]
           /\ render_materials =
                  [m \in Materials |->
                      prepare_asset(Material("Blend", bias[m], 11, NoImage), Images,
                                    StagedBindGroup(m)).asset]
    /\ asset_changed = {}
    /\ asset_removed = {}
    /\ images = Images
    /\ extracted_assets = EmptyMap
    /\ extracted_removed = {}
    /\ prepare_next_frame = <<>>
    /\ prev_next_frame = <<>>
    /\ views = [v \in Views |-> ViewOf(v)]
    /\ visible_entities = [v \in Views |-> VisibleOrder(v, Entities)]
    /\ material2d_pipeline = from_world(DefaultMaterialType)
    /\ \E origin \in {f32_round(0, 0), f32_round(16777216, 0)} :
           render_mesh_instances =
               [e \in Entities |->
                   [ExtractedMeshInstance(e) EXCEPT !.mesh_z = f32_add(origin, @)]]
    /\ render_meshes = MeshIds
    /\ pipelines = EmptyMap
    /\ pipeline_cache = EmptyMap
    /\ opaque_phases = ClearedPhases(views)
    /\ transparent_phases = ClearedPhases(views)
    /\ errors = <<>>
    /\ hook_calls = <<>>
    /\ drawn = EmptyMap
    /\ in_flight = EmptyMap

NextSort ==
    \/ QueueOther
    \/ QueueMeshes
    \/ SortPhases

SpecSort == InitSort /\ [][NextSort]_vars

\* C15: the sort of a view's transparent phase leaves the items of the phase,
\* each as often as before, in ascending order of sort key; the order of
\* the keys depends on the keys alone, so two views that were filled in
\* different orders with the same keys are consumed in the same key order;
\* keys inserted as [5, -2, 0, -2] are consumed as [-2, -2, 0, 5].
C15_ConsumedAscending ==
    [][(pc = "queued" /\ pc' = "sorted") =>
        LET KeysOf(phase) == [i \in DOMAIN phase |-> phase[i].sort_key]
            Key(k) == f32_round(k, 0)
            Count(seq, x) == Cardinality({i \in DOMAIN seq : seq[i] = x})
            SameBag(a, b) ==
                \A x \in {a[i] : i \in DOMAIN a} \cup {b[i] : i \in DOMAIN b} :
                    Count(a, x) = Count(b, x)
        IN \A v \in DOMAIN transparent_phases :
               LET before == transparent_phases[v]
                   after == transparent_phases'[v]
               IN /\ SameBag(before, after)
                  /\ \A i, j \in DOMAIN after :
                         i < j => ~FloatOrd_lt(after[j].sort_key, after[i].sort_key)
                  /\ KeysOf(before) = <<Key(5), Key(-2), Key(0), Key(-2)>> =>
                         KeysOf(after) = <<Key(-2), Key(-2), Key(0), Key(5)>>
                  /\ \A w \in DOMAIN transparent_phases :
                         SameBag(KeysOf(before), KeysOf(transparent_phases[w])) =>
                             KeysOf(after) = KeysOf(transparent_phases'[w])]_vars

\* Two views were sorted to the keys [-2, -2, 0, 5]: in one the other system's
\* item with key -2 was inserted before entity 2's, in the other after it.
C15_Witness ==
    /\ pc = "sorted"
    /\ \E v, w \in DOMAIN transparent_phases :
           /\ [i \in DOMAIN transparent_phases[v] |-> transparent_phases[v][i].sort_key]
                  = <<f32_round(-2, 0), f32_round(-2, 0), f32_round(0, 0), f32_round(5, 0)>>
           /\ [i \in DOMAIN transparent_phases[w] |-> transparent_phases[w][i].sort_key]
                  = <<f32_round(-2, 0), f32_round(-2, 0), f32_round(0, 0), f32_round(5, 0)>>
           /\ transparent_phases[v][1].entity = 0
           /\ transparent_phases[w][1].entity = 2

\* C19: every Transparent2d item that queue_material2d_meshes queued has the
\* sort key mesh_z + depth_bias, the f32 sum of its entity's mesh instance
\* depth and its prepared material's depth bias; once the phase is sorted, of
\* two such items of a view the one with the larger z + depth_bias is drawn
\* later, and items whose sums are the same f32 keep the order they were
\* queued in. A bias that is not negative never lowers the key below z.
C19_SortKeyIsDepthPlusBias ==
    pc \in {"queued", "sorted"} =>
        \A v \in DOMAIN transparent_phases :
            LET phase == transparent_phases[v]
                Depth(e) == f32_add(render_mesh_instances[e].mesh_z,
                                    MaterialOf(e).properties.depth_bias)
                Queued(e) == CHOOSE k \in DOMAIN visible_entities[v] :
                                 visible_entities[v][k] = e
            IN \A i \in DOMAIN phase :
                   phase[i].entity \in Entities =>
                       /\ phase[i].sort_key = Depth(phase[i].entity)
                       /\ ~FloatOrd_lt(MaterialOf(phase[i].entity).properties.depth_bias,
                                       f32_round(0, 0)) =>
                              ~FloatOrd_lt(phase[i].sort_key,
                                           render_mesh_instances[phase[i].entity].mesh_z)
                       /\ pc = "sorted" =>
                              \A j \in DOMAIN phase :
                                  phase[j].entity \in Entities =>
                                      /\ FloatOrd_lt(Depth(phase[i].entity),
                                                     Depth(phase[j].entity)) => i < j
                                      /\ (Depth(phase[i].entity) = Depth(phase[j].entity)
                                              /\ Queued(phase[i].entity) < Queued(phase[j].entity))
                                             => i < j

\* Entity 2 lies behind entity 1 (smaller z) and has a material with a positive
\* depth bias while entity 1's has none: its sort key is the larger one and it
\* is drawn after entity 1.
C19_Witness ==
    /\ pc = "sorted"
    /\ FloatOrd_lt(render_mesh_instances[2].mesh_z, render_mesh_instances[1].mesh_z)
    /\ MaterialOf(1).properties.depth_bias = f32_round(0, 0)
    /\ FloatOrd_lt(f32_round(0, 0), MaterialOf(2).properties.depth_bias)
    /\ \E v \in DOMAIN transparent_phases :
           \E i, j \in DOMAIN transparent_phases[v] :
               /\ i < j
               /\ transparent_phases[v][i].entity = 1
               /\ transparent_phases[v][j].entity = 2
               /\ FloatOrd_lt(transparent_phases[v][i].sort_key,
                              transparent_phases[v][j].sort_key)

(***************************************************************************)
(* Properties of the order of the systems in a frame (Spec).               *)
(***************************************************************************)
\* C16: when queue_material2d_meshes runs in a frame, extraction and
\* prepare_assets of that frame have run: the instance map it reads is the
\* one extracted from this frame's visibility flags and handles, not the
\* previous frame's, the assets extracted in this frame have been handed to
\* prepare_asset, and every material whose dependencies are ready is in
\* the cache with the current asset's data.
C16_QueueAfterExtractAndPrepare ==
    [][(pc' = "queued" /\ pc # "queued") =>
        /\ pc = "prepared"
        /\ material_instances =
               [e \in {x \in Entities : view_visibility[x] /\ handle[x] # NoHandle} |-> handle[e]]
        /\ extracted_assets = EmptyMap
        /\ \A m \in Materials :
               DependencyReady(m) =>
                   /\ render_materials[m] # NoAsset
                   /\ render_materials[m].key = assets[m].data]_vars

\* Queuing has run in a frame whose instance map differs from the previous
\* frame's and in which a material was prepared on a retry: an entity that
\* was not in the previous map and uses that material has a draw item.
C16_Witness ==
    /\ pc = "queued"
    /\ prev_instances # material_instances
    /\ \E e \in (DOMAIN material_instances) \ (DOMAIN prev_instances) :
           LET m == material_instances[e] IN
           /\ m \in QueuedIds(prev_next_frame)
           /\ m \notin QueuedIds(prepare_next_frame)
           /\ render_materials[m] # NoAsset
           /\ \E v \in PhaseViews : ItemCount(v, e) = 1

(***************************************************************************)
(* Properties of the access to the shared tables (Spec).                   *)
(***************************************************************************)
\* C17 as stated: a queuing step leaves the instance map, the prepared-material
\* cache and the pipeline cache as they were and writes only into the phase
\* containers.
C17_QueueWritesPhasesOnly ==
    [][QueueRuns =>
        /\ material_instances' = material_instances
        /\ render_materials' = render_materials
        /\ pipelines' = pipelines
        /\ pipeline_cache' = pipeline_cache
        /\ render_mesh_instances' = render_mesh_instances]_vars

\* C17, amended: the instance map changes only in an extraction step and the
\* prepared-material cache only in a preparation step, and the pipeline
\* cache only in a queuing step, where the specialization component is
\* called; a queuing step leaves the instance map and the prepared-material
\* cache as they were, keeps every entry of the pipeline cache and adds one
\* for each key it specializes for the first time, and writes nothing of a
\* mesh instance but its cached material bind group id.
C17_SharedResourcePolicy ==
    [][/\ material_instances' # material_instances => (pc = "update" /\ pc' = "extracted")
       /\ render_materials' # render_materials => (pc # "prepared" /\ pc' = "prepared")
       /\ (pipelines' # pipelines \/ pipeline_cache' # pipeline_cache) => QueueRuns
       /\ QueueRuns =>
              /\ material_instances' = material_instances
              /\ render_materials' = render_materials
              /\ \A k \in DOMAIN pipelines :
                     k \in DOMAIN pipelines' /\ pipelines'[k] = pipelines[k]
              /\ \A id \in DOMAIN pipeline_cache :
                     id \in DOMAIN pipeline_cache' /\ pipeline_cache'[id] = pipeline_cache[id]
              /\ \A k \in (DOMAIN pipelines') \ (DOMAIN pipelines) :
                     \E i \in DOMAIN hook_calls' : hook_calls'[i].key = k
              /\ DOMAIN render_mesh_instances' = DOMAIN render_mesh_instances
              /\ \A e \in DOMAIN render_mesh_instances :
                     [render_mesh_instances'[e] EXCEPT !.material_bind_group_id =
                          render_mesh_instances[e].material_bind_group_id]
                       = render_mesh_instances[e]]_vars

\* A queuing step of a later frame has run: the pipeline cache holds a key of
\* an earlier frame and a key specialized in this one, and a mesh instance
\* has the bind group id of its material.
C17_Witness ==
    /\ pc = "queued"
    /\ \E k \in DOMAIN pipelines : \A i \in DOMAIN hook_calls : hook_calls[i].key # k
    /\ \E k \in DOMAIN pipelines : \E i \in DOMAIN hook_calls : hook_calls[i].key = k
    /\ \E e \in DOMAIN render_mesh_instances :
           /\ e \in DOMAIN material_instances
           /\ render_materials[material_instances[e]] # NoAsset
           /\ render_mesh_instances[e].material_bind_group_id =
                  get_bind_group_id(render_materials[material_instances[e]])

(***************************************************************************)
(* Specialization on its own: one mesh for all entities or meshes that     *)
(* alternate, one material for all entities or materials that alternate, a *)
(* material type whose hook rejects some keys, views that differ or views  *)
(* with 2D phases that are all configured like the first; each frame       *)
(* queues them.                                                            *)
(***************************************************************************)
InitSpecialize ==
    /\ pc = "update"
    /\ handle = [e \in Entities |-> HandleOf(e)]
    /\ view_visibility = [e \in Entities |-> TRUE]
    /\ material_instances \in
           {[e \in Entities |-> m] : m \in Materials}
               \cup {[e \in Entities |-> HandleOf(e)], [e \in Entities |-> HandleOf(e + 1)]}
    /\ prev_instances = RenderMaterial2dInstances_default
    /\ assets = [m \in Materials |-> StagedSource(m)]
    /\ asset_changed = {}
    /\ asset_removed = {}
    /\ images = Images
    /\ extracted_assets = EmptyMap
    /\ extracted_removed = {}
    /\ prepare_next_frame = <<>>
    /\ prev_next_frame = <<>>
    /\ render_materials = [m \in Materials |-> StagedMaterial(m)]
    /\ \E alike \in BOOLEAN :
           views = [v \in Views |->
                       IF alike /\ ViewOf(v).phases THEN ViewOf(1) ELSE ViewOf(v)]
    /\ visible_entities = [v \in Views |-> VisibleOrder(v, Entities)]
    /\ material2d_pipeline =
           from_world(CHOOSE M \in MaterialTypes : M.specialize = "RejectsHdrBlend")
    /\ \E mesh_of \in {[e \in Entities |-> id] : id \in MeshIds}
                          \cup {[e \in Entities |-> ((e + s) % Cardinality(MeshIds)) + 1] :
                                    s \in 1..Cardinality(MeshIds)} :
           render_mesh_instances =
               [e \in Entities |-> [ExtractedMeshInstance(e) EXCEPT
                                        !.mesh_asset_id = mesh_of[e]]]
    /\ render_meshes = MeshIds
    /\ pipelines = EmptyMap
    /\ pipeline_cache = EmptyMap
    /\ opaque_phases = ClearedPhases(views)
    /\ transparent_phases = ClearedPhases(views)
    /\ errors = <<>>
    /\ hook_calls = <<>>
    /\ drawn = EmptyMap
    /\ in_flight = EmptyMap

SpecSpecialize == InitSpecialize /\ [][NextViewKey]_vars

\* C20: a request whose base mesh pipeline cannot be specialized logs the base
\* specializer's error and the material's hook is not called for its key; a
\* request whose hook fails logs the hook's error; in both cases no
\* pipeline is created or cached for the key, and every further request
\* for the key runs the specialization again.
C20_SpecializeErrorsPropagate ==
    [][QueueRuns =>
        \A p \in ProcessedPairs :
            ~SkipCondition(p[2]) =>
                LET key == Material2dKeyOf(p[1], p[2])
                    layout == MeshOf(p[2]).layout
                    k == CacheKeyOf(p[1], p[2])
                    base == Mesh2dPipeline_specialize(material2d_pipeline.mesh2d_pipeline,
                                                      key.mesh_key, layout)
                    hook == M_specialize(material2d_pipeline.marker, base.descriptor,
                                         layout, key)
                    Calls == {i \in DOMAIN hook_calls' : hook_calls'[i].key = k}
                    Requests == {q \in ProcessedPairs :
                                    ~SkipCondition(q[2]) /\ CacheKeyOf(q[1], q[2]) = k}
                    Logged(err) == \E i \in DOMAIN errors' :
                                       /\ errors'[i].view = p[1]
                                       /\ errors'[i].entity = p[2]
                                       /\ errors'[i].err = err
                    NothingCached == /\ k \notin DOMAIN pipelines'
                                     /\ \A id \in DOMAIN pipeline_cache' : id.created_for # k
                IN /\ ~base.ok => (Logged(base.err) /\ Calls = {} /\ NothingCached)
                   /\ (base.ok /\ ~hook.ok) =>
                          /\ Logged(hook.err)
                          /\ NothingCached
                          /\ Cardinality(Calls) = Cardinality(Requests)]_vars

\* In one frame the material's hook failed for one entity and was called for
\* its key, and the base specializer failed for another entity, for whose
\* key the hook was not called; neither key is cached.
C20_Witness ==
    /\ pc = "queued"
    /\ \E i, j \in DOMAIN errors :
           LET ki == CacheKeyOf(errors[i].view, errors[i].entity)
               kj == CacheKeyOf(errors[j].view, errors[j].entity)
           IN /\ errors[i].err = "MaterialSpecializeError"
              /\ \E c \in DOMAIN hook_calls : hook_calls[c].key = ki
              /\ "POSITION" \notin MeshOf(errors[j].entity).layout
              /\ \A c \in DOMAIN hook_calls : hook_calls[c].key # kj
              /\ ki \notin DOMAIN pipelines
              /\ kj \notin DOMAIN pipelines

(***************************************************************************)
(* Views processed in parallel: one worker per view walks the view's       *)
(* visible entities in order, and the steps of the workers interleave in   *)
(* any order. The loop body of an entity is three steps: the lookups and   *)
(* the key (RequestBegins), the lookup in the memo table (TableLookup) and *)
(* the specialization on a miss with the insert and the draw item          *)
(* (RequestEnds). pipelines.specialize takes the memo table by exclusive   *)
(* reference: a worker holds the table from its lookup to its insert.      *)
(***************************************************************************)
\* Mutation: the memo table is shared without synchronization.
TableUnguarded == TRUE

\* No worker holds the memo table.
TableFree == \A w \in DOMAIN in_flight : ~in_flight[w].holds

\* The worker of some view takes the view's next entity and builds its key.
RequestBegins ==
    /\ pc = "update"
    /\ \E v \in ProcessedViews \ DOMAIN in_flight :
           LET n == Len(opaque_phases[v]) + Len(transparent_phases[v])
                      + Cardinality({i \in DOMAIN errors : errors[i].view = v})
           IN /\ n < Len(visible_entities[v])
              /\ in_flight' = MapInsert(in_flight, v,
                                        [entity |-> visible_entities[v][n + 1],
                                         holds |-> FALSE, hit |-> FALSE])
    /\ UNCHANGED <<pc, worldVars, extractVars, assetVars, prepareVars, viewVars, meshVars,
                   pipelines, pipeline_cache, opaque_phases, transparent_phases, errors,
                   hook_calls, drawn>>

\* A worker gets the memo table and looks its key up.
TableLookup ==
    /\ TableFree
    /\ \E v \in DOMAIN in_flight :
           LET e == in_flight[v].entity IN
           /\ ~in_flight[v].holds
           /\ in_flight' =
                  [in_flight EXCEPT ![v] =
                      [entity |-> e, holds |-> TRUE,
                       hit |-> ~SkipCondition(e) /\ CacheKeyOf(v, e) \in DOMAIN pipelines]]
    /\ UNCHANGED <<pc, worldVars, extractVars, assetVars, prepareVars, viewVars, meshVars,
                   pipelines, pipeline_cache, opaque_phases, transparent_phases, errors,
                   hook_calls, drawn>>

\* A worker finishes its request: on a hit it has the cached handle, on a miss
\* it specializes, inserts what it built and queues the pipeline; it gives
\* the table back and adds the entity's draw item to its view's phase.
RequestEnds ==
    /\ \E v \in DOMAIN in_flight :
           LET e == in_flight[v].entity
               found == IF in_flight[v].hit \/ SkipCondition(e) THEN pipelines
                        ELSE [k \in (DOMAIN pipelines) \ {CacheKeyOf(v, e)} |-> pipelines[k]]
               done == QueueEntity(
                           QueueState(found, pipeline_cache, render_mesh_instances,
                                      opaque_phases, transparent_phases, errors, hook_calls),
                           v,
                           ViewKey(views[v].msaa, views[v].hdr, views[v].tonemapping,
                                   views[v].dither),
                           e, material2d_pipeline, material_instances, render_materials,
                           render_meshes)
           IN /\ in_flight[v].holds
              /\ pipelines' = [k \in (DOMAIN pipelines) \cup (DOMAIN done.pipelines) |->
                                  IF k \in DOMAIN done.pipelines THEN done.pipelines[k]
                                  ELSE pipelines[k]]
              /\ pipeline_cache' = done.pipeline_cache
              /\ render_mesh_instances' = done.mesh_instances
              /\ opaque_phases' = done.opaque
              /\ transparent_phases' = done.transparent
              /\ errors' = done.errors
              /\ hook_calls' = done.hook_calls
              /\ in_flight' = [w \in (DOMAIN in_flight) \ {v} |-> in_flight[w]]
    /\ UNCHANGED <<pc, worldVars, extractVars, assetVars, prepareVars, viewVars, render_meshes,
                   drawn>>

SpecParallelViews == InitSpecialize /\ [][RequestBegins \/ TableLookup \/ RequestEnds]_vars

\* C18: however the steps of the views' workers interleave, at most one
\* pipeline is created for a key, the material's hook has run exactly once
\* for every cached key, and every requester has the handle cached for its
\* key: every item queued for a key carries it.
C18_InsertOrFetchOnce ==
    /\ \A a, b \in DOMAIN pipeline_cache : a.created_for = b.created_for => a = b
    /\ \A k \in DOMAIN pipelines :
           Cardinality({i \in DOMAIN hook_calls : hook_calls[i].key = k}) = 1
    /\ \A v \in ProcessedViews :
           /\ \A i \in DOMAIN opaque_phases[v] :
                  LET k == CacheKeyOf(v, opaque_phases[v][i].entity) IN
                  k \in DOMAIN pipelines /\ opaque_phases[v][i].bin_key.pipeline = pipelines[k]
           /\ \A i \in DOMAIN transparent_phases[v] :
                  LET k == CacheKeyOf(v, transparent_phases[v][i].entity) IN
                  k \in DOMAIN pipelines /\ transparent_phases[v][i].pipeline = pipelines[k]

\* The workers of two views have requests for the same key under way at once,
\* for a key that is not cached: one holds the memo table after a miss, the
\* other has built its key and waits for the table.
C18_Witness ==
    \E v, w \in DOMAIN in_flight :
        /\ v # w
        /\ in_flight[v].holds
        /\ ~in_flight[v].hit
        /\ ~in_flight[w].holds
        /\ CacheKeyOf(v, in_flight[v].entity) = CacheKeyOf(w, in_flight[w].entity)
        /\ CacheKeyOf(v, in_flight[v].entity) \notin DOMAIN pipelines
        /\ ~SpecializationFails(v, in_flight[v].entity)

(***************************************************************************)
(* Properties of the mesh instances' cached bind group id (SpecQueue).     *)
(***************************************************************************)
\* C21: a queuing step writes a mesh instance's cached material bind group id
\* exactly when it queues a draw item for the entity: an entity with an
\* item in some view has the bind group id of its prepared material, which
\* is also the id in the bin key of each of its opaque items; an entity
\* without an item, skipped or failed in every view, keeps the id it had
\* before the step.
C21_BindGroupIdWrittenWhenQueued ==
    [][QueueRuns =>
        /\ DOMAIN render_mesh_instances' = DOMAIN render_mesh_instances
        /\ \A e \in DOMAIN render_mesh_instances :
               LET Queued(v) == OpaqueItemsOf(opaque_phases', v, e) # {}
                                    \/ TransparentItemsOf(transparent_phases', v, e) # {}
                   after == render_mesh_instances'[e].material_bind_group_id
               IN IF \E v \in ProcessedViews : Queued(v)
                  THEN /\ after = MaterialOf(e).bind_group
                       /\ \A v \in ProcessedViews :
                              \A i \in OpaqueItemsOf(opaque_phases', v, e) :
                                  opaque_phases'[v][i].bin_key.material_bind_group_id = after
                  ELSE after = render_mesh_instances[e].material_bind_group_id]_vars

\* One entity was queued with an opaque item and has its material's bind group
\* id; another visible entity, with a prepared material and a ready mesh,
\* failed to specialize in every view and has no cached id.
C21_Witness ==
    /\ pc = "queued"
    /\ \E e, f \in DOMAIN render_mesh_instances :
           /\ \E v \in ProcessedViews : OpaqueItemsOf(opaque_phases, v, e) # {}
           /\ render_mesh_instances[e].material_bind_group_id = MaterialOf(e).bind_group
           /\ render_mesh_instances[e].material_bind_group_id # NoBindGroup
           /\ ~SkipCondition(f)
           /\ \A v \in ProcessedViews : <<v, f>> \in ProcessedPairs /\ ItemCount(v, f) = 0
           /\ \E i \in DOMAIN errors : errors[i].entity = f
           /\ render_mesh_instances[f].material_bind_group_id = NoBindGroup

(***************************************************************************)
(* Properties of the phases against the pipelines (Spec).                  *)
(***************************************************************************)
\* C23: in every reachable state, every item of a transparent phase has a
\* pipeline specialized with a key that contains BLEND_ALPHA and every
\* item of an opaque phase has a pipeline specialized with a key that does
\* not contain it; the pipelines are those queued for these keys.
C23_PhaseAgreesWithPipelineKey ==
    \A v \in PhaseViews :
        /\ \A i \in DOMAIN transparent_phases[v] :
               LET id == transparent_phases[v][i].pipeline IN
               /\ BLEND_ALPHA \subseteq id.created_for.key.mesh_key
               /\ id \in DOMAIN pipeline_cache
               /\ BLEND_ALPHA \subseteq pipeline_cache[id].mesh_key
        /\ \A i \in DOMAIN opaque_phases[v] :
               LET id == opaque_phases[v][i].bin_key.pipeline IN
               /\ BLEND_ALPHA \cap id.created_for.key.mesh_key = {}
               /\ id \in DOMAIN pipeline_cache
               /\ BLEND_ALPHA \cap pipeline_cache[id].mesh_key = {}

\* A view has an item in its opaque phase and an item in its transparent phase,
\* of entities whose prepared materials are Opaque and Blend.
C23_Witness ==
    /\ pc = "queued"
    /\ \E v \in PhaseViews :
           /\ \E i \in DOMAIN opaque_phases[v] :
                  MaterialOf(opaque_phases[v][i].entity).properties.alpha_mode = "Opaque"
           /\ \E i \in DOMAIN transparent_phases[v] :
                  MaterialOf(transparent_phases[v][i].entity).properties.alpha_mode = "Blend"

(***************************************************************************)
(* Drawing: the draw functions of the queued items run in the frame's      *)
(* render pass, after queuing and with the tables as queuing read them.    *)
(***************************************************************************)
\* The index I of SetMaterial2dBindGroup<M, I> in DrawMaterial2d<M>.
MaterialBindGroupIndex == 2

\* Mutation: the prepared material is looked up under the item's entity.
SetMaterial2dBindGroupByEntity(entity, materials, instances, pass) ==
    IF entity \notin DOMAIN instances
    THEN [result |-> "Skip", pass |-> pass]
    ELSE IF entity \notin DOMAIN materials \/ materials[entity] = NoAsset
    THEN [result |-> "Skip", pass |-> pass]
    ELSE [result |-> "Success",
          pass |-> MapInsert(pass, MaterialBindGroupIndex, materials[entity].bind_group)]

\* SetMaterial2dBindGroup::render for an item of `entity`: the result and the
\* bind groups of the pass afterwards.
SetMaterial2dBindGroup_render(entity, materials, instances, pass) ==
    IF entity \notin DOMAIN instances
    THEN [result |-> "Skip", pass |-> pass]
    ELSE IF materials[instances[entity]] = NoAsset
    THEN [result |-> "Skip", pass |-> pass]
    ELSE [result |-> "Success",
          pass |-> MapInsert(pass, MaterialBindGroupIndex,
                             materials[instances[entity]].bind_group)]

\* The render passes of the frame: for every view, one pass draws the items
\* of the opaque phase and one the sorted items of the transparent phase. An
\* item is drawn by the commands of DrawMaterial2d<M> in their order; a
\* command that does not return Success ends the item, and what the commands
\* bound stays bound in the pass for the items after it. SetItemPipeline
\* skips an item whose pipeline the cache has not compiled yet: `ready` are
\* the compiled pipelines, all of the cache or all but one.
\* SetMesh2dViewBindGroup<0> and SetMesh2dBindGroup<1> bind the view's and the
\* mesh bind group; DrawMesh2d skips an item without mesh instance or GPU mesh.
DrawPhases ==
    /\ pc = "queued"
    /\ drawn = EmptyMap
    /\ \E ready \in {DOMAIN pipeline_cache}
                        \cup {(DOMAIN pipeline_cache) \ {id} : id \in DOMAIN pipeline_cache} :
           drawn' =
               [v \in (DOMAIN opaque_phases) \cap (DOMAIN transparent_phases) |->
                   LET sorted == Transparent2d_sort(transparent_phases[v])
                       opaque == [i \in DOMAIN opaque_phases[v] |->
                                     [entity |-> opaque_phases[v][i].entity,
                                      pipeline |-> opaque_phases[v][i].bin_key.pipeline]]
                       transparent == [i \in DOMAIN sorted |->
                                          [entity |-> sorted[i].entity,
                                           pipeline |-> sorted[i].pipeline]]
                       DrawMaterial2d(item, pass) ==
                           LET view_bound == MapInsert(pass, 0, [view |-> v])
                               mesh_bound == MapInsert(view_bound, 1, [mesh2d |-> TRUE])
                               material == SetMaterial2dBindGroup_render(
                                               item.entity, render_materials,
                                               material_instances, mesh_bound)
                               mesh_ready ==
                                   /\ item.entity \in DOMAIN render_mesh_instances
                                   /\ render_mesh_instances[item.entity].mesh_asset_id
                                          \in render_meshes
                           IN IF item.pipeline \notin ready
                              THEN [results |-> <<"Skip">>, pass |-> pass]
                              ELSE IF material.result # "Success"
                              THEN [results |-> <<"Success", "Success", "Success",
                                                  material.result>>,
                                    pass |-> material.pass]
                              ELSE [results |-> <<"Success", "Success", "Success", "Success",
                                                  IF mesh_ready THEN "Success" ELSE "Skip">>,
                                    pass |-> material.pass]
                       RenderPass(items) ==
                           LET run[i \in 0..Len(items)] ==
                                   IF i = 0 THEN [pass |-> EmptyMap, log |-> <<>>]
                                   ELSE LET d == DrawMaterial2d(items[i], run[i - 1].pass)
                                        IN [pass |-> d.pass,
                                            log |-> Append(run[i - 1].log,
                                                           [entity |-> items[i].entity,
                                                            results |-> d.results,
                                                            bind_groups |-> d.pass])]
                           IN run[Len(items)].log
                   IN RenderPass(opaque) \o RenderPass(transparent)]
    /\ UNCHANGED <<pc, worldVars, extractVars, assetVars, prepareVars, viewVars, meshVars,
                   pipelines, pipeline_cache, opaque_phases, transparent_phases, errors,
                   hook_calls, in_flight>>

SpecDraw == InitQueue /\ [][NextQueue \/ DrawPhases]_vars

\* C22: SetMaterial2dBindGroup returns Skip, and leaves the pass as it is, iff
\* the entity is absent from the material instance map or its material is
\* absent from the prepared-material cache; otherwise it binds the prepared
\* material's bind group at its index, keeps what is bound at the other
\* indices and returns Success. Every item that queue_material2d_meshes
\* added in the frame is drawn in the frame's passes, and when its draw
\* function reaches SetMaterial2dBindGroup the command returns Success and
\* binds the bind group of the entity's material (the bind group id of its
\* opaque bin key); no command from SetMaterial2dBindGroup on skips it.
C22_QueuedItemsDrawWithSuccess ==
    /\ \A e \in Entities :
           \A before \in {EmptyMap,
                          MapInsert(MapInsert(EmptyMap, 0, [view |-> 1]),
                                    MaterialBindGroupIndex, NoBindGroup)} :
               LET r == SetMaterial2dBindGroup_render(e, render_materials, material_instances,
                                                      before)
                   absent == \/ e \notin DOMAIN material_instances
                             \/ render_materials[material_instances[e]] = NoAsset
               IN /\ (r.result = "Skip") = absent
                  /\ absent => r.pass = before
                  /\ ~absent =>
                         /\ r.result = "Success"
                         /\ DOMAIN r.pass = (DOMAIN before) \cup {MaterialBindGroupIndex}
                         /\ r.pass[MaterialBindGroupIndex] = MaterialOf(e).bind_group
                         /\ \A k \in (DOMAIN before) \ {MaterialBindGroupIndex} :
                                r.pass[k] = before[k]
    /\ \A v \in DOMAIN drawn :
           /\ Len(drawn[v]) = Len(opaque_phases[v]) + Len(transparent_phases[v])
           /\ \A i \in DOMAIN drawn[v] :
                  \/ drawn[v][i].results = <<"Skip">>
                  \/ /\ drawn[v][i].results =
                            <<"Success", "Success", "Success", "Success", "Success">>
                     /\ DOMAIN drawn[v][i].bind_groups = {0, 1, MaterialBindGroupIndex}
                     /\ drawn[v][i].bind_groups[MaterialBindGroupIndex] =
                            MaterialOf(drawn[v][i].entity).bind_group
                     /\ i \in DOMAIN opaque_phases[v] =>
                            opaque_phases[v][i].bin_key.material_bind_group_id =
                                drawn[v][i].bind_groups[MaterialBindGroupIndex]

\* The items of a frame were drawn. In one view's pass SetMaterial2dBindGroup
\* bound the bind group of an item's material next to the view's and the
\* mesh's, while a visible entity whose material is not prepared was skipped by
\* queuing and has no item to draw; in another view's pass SetItemPipeline ended
\* an item before SetMaterial2dBindGroup.
C22_Witness ==
    /\ pc = "queued"
    /\ \E v \in DOMAIN drawn :
           /\ \E i \in DOMAIN drawn[v] :
                  /\ Len(drawn[v][i].results) = 5
                  /\ drawn[v][i].results[4] = "Success"
                  /\ DOMAIN drawn[v][i].bind_groups = {0, 1, MaterialBindGroupIndex}
                  /\ drawn[v][i].bind_groups[MaterialBindGroupIndex] # NoBindGroup
           /\ \E e \in VisibleIn(v) :
                  /\ MaterialNotPrepared(e)
                  /\ \A i \in DOMAIN drawn[v] : drawn[v][i].entity # e
    /\ \E w \in DOMAIN drawn : \E i \in DOMAIN drawn[w] : drawn[w][i].results = <<"Skip">>

====
